---- MODULE Spec2Model ----
(***************************************************************************)
(* serve-static: the middleware of src/index.js together with the part of  *)
(* the send stream it drives (path decoding and normalisation, stat,       *)
(* directory / file / headers / error events, streaming).                  *)
(*                                                                         *)
(* Strings are sequences of one-character strings, so that decoding,       *)
(* normalisation, slash collapsing and encoding are computed and not       *)
(* assumed.                                                                *)
(***************************************************************************)
EXTENDS Integers, Sequences, FiniteSets, TLC

(***************************************************************************)
(* Bounds of the model                                                     *)
(***************************************************************************)

\* the operating system's limit on the length of a path, scaled down
PathMax == 14

\* the number of requests one client sends, one after the other
MaxExchanges == 2

\* the length of the request paths made of slashes and one letter
SlashMax == 4

\* the number of requests a host with several connections takes in
HostMax == 3

(***************************************************************************)
(* Strings                                                                 *)
(***************************************************************************)

Slash == "/"

EndsWith(s, c) == Len(s) > 0 /\ s[Len(s)] = c

StartsWith(s, c) == Len(s) > 0 /\ s[1] = c

Mem(s, c) == \E k \in 1..Len(s) : s[k] = c

\* String.prototype.split(sep): the segments between the separators
RECURSIVE SplitFrom(_, _, _)
SplitFrom(s, k, cur) ==
  IF k > Len(s) THEN <<cur>>
  ELSE IF s[k] = Slash THEN <<cur>> \o SplitFrom(s, k + 1, <<>>)
  ELSE SplitFrom(s, k + 1, Append(cur, s[k]))

Split(s) == SplitFrom(s, 1, <<>>)

\* Array.prototype.join('/')
RECURSIVE JoinSegs(_)
JoinSegs(segs) ==
  IF Len(segs) = 0 THEN <<>>
  ELSE IF Len(segs) = 1 THEN segs[1]
  ELSE segs[1] \o <<Slash>> \o JoinSegs(Tail(segs))

DotDot == <<".", ".">>

Dot == <<".">>

(***************************************************************************)
(* decodeURIComponent, as send's decode(path) uses it                      *)
(***************************************************************************)

HexDigits ==
  {"0", "1", "2", "3", "4", "5", "6", "7", "8", "9",
   "a", "b", "c", "d", "e", "f", "A", "B", "C", "D", "E", "F"}

\* the character an escape sequence %XY stands for (the sequences in use)
PctTable ==
  [pair \in {<<"2", "e">>, <<"2", "0">>, <<"2", "2">>} |->
     CASE pair = <<"2", "e">> -> "."
       [] pair = <<"2", "0">> -> " "
       [] pair = <<"2", "2">> -> "\""]

RECURSIVE DecodeFrom(_, _)
DecodeFrom(s, k) ==
  IF k > Len(s) THEN [ok |-> TRUE, val |-> <<>>]
  ELSE IF s[k] # "%"
    THEN LET rest == DecodeFrom(s, k + 1)
         IN  [ok |-> rest.ok, val |-> <<s[k]>> \o rest.val]
  ELSE IF k + 2 > Len(s) \/ s[k + 1] \notin HexDigits \/ s[k + 2] \notin HexDigits
    THEN [ok |-> FALSE, val |-> <<>>]
  ELSE LET rest == DecodeFrom(s, k + 3)
       IN  [ok |-> rest.ok, val |-> <<PctTable[<<s[k + 1], s[k + 2]>>]>> \o rest.val]

\* decode(path): the decoded string, or a failure (-1 in the code)
Decode(s) == DecodeFrom(s, 1)

(***************************************************************************)
(* path.normalize, path.join, path.resolve (posix)                         *)
(***************************************************************************)

\* normalizeString: resolve '.', '..' and empty segments
RECURSIVE NormalizeSegs(_, _, _)
NormalizeSegs(segs, acc, allowAboveRoot) ==
  IF Len(segs) = 0 THEN acc
  ELSE LET h == Head(segs)
           t == Tail(segs)
       IN  IF h = <<>> \/ h = Dot THEN NormalizeSegs(t, acc, allowAboveRoot)
           ELSE IF h = DotDot
             THEN IF Len(acc) > 0 /\ acc[Len(acc)] # DotDot
                    THEN NormalizeSegs(t, SubSeq(acc, 1, Len(acc) - 1), allowAboveRoot)
                  ELSE IF allowAboveRoot
                    THEN NormalizeSegs(t, Append(acc, DotDot), allowAboveRoot)
                  ELSE NormalizeSegs(t, acc, allowAboveRoot)
           ELSE NormalizeSegs(t, Append(acc, h), allowAboveRoot)

Normalize(p) ==
  IF Len(p) = 0 THEN Dot
  ELSE LET isAbsolute == StartsWith(p, Slash)
           trailingSeparator == EndsWith(p, Slash)
           body == JoinSegs(NormalizeSegs(Split(p), <<>>, ~isAbsolute))
       IN  IF Len(body) = 0
             THEN IF isAbsolute THEN <<Slash>>
                  ELSE IF trailingSeparator THEN <<".", Slash>> ELSE Dot
           ELSE (IF isAbsolute THEN <<Slash>> ELSE <<>>) \o body
                \o (IF trailingSeparator THEN <<Slash>> ELSE <<>>)

\* path.join(a, b): the non-empty arguments joined by '/' and normalized
Join(a, b) ==
  IF Len(b) = 0 THEN Normalize(a)
  ELSE IF Len(a) = 0 THEN Normalize(b)
  ELSE Normalize(a \o <<Slash>> \o b)

\* the working directory of the process
Cwd == <<Slash>>

\* path.resolve(p): absolute, normalized, without trailing separator
Resolve(p) ==
  LET abs == IF StartsWith(p, Slash) THEN p
             ELSE IF Len(p) = 0 THEN Cwd ELSE Cwd \o <<Slash>> \o p
      segs == NormalizeSegs(Split(abs), <<>>, FALSE)
  IN  <<Slash>> \o JoinSegs(segs)

(***************************************************************************)
(* encodeUrl (encodeurl), url.format, collapseLeadingSlashes               *)
(***************************************************************************)

\* the characters encodeUrl replaces, with their escape sequences
EncTable ==
  [c \in {"\"", " ", "<", ">"} |->
     CASE c = "\"" -> <<"%", "2", "2">>
       [] c = " " -> <<"%", "2", "0">>
       [] c = "<" -> <<"%", "3", "C">>
       [] c = ">" -> <<"%", "3", "E">>]

\* encodeUrl(url): encode what is not a valid URL character, keep the
\* escape sequences already present, encode a '%' that starts none
RECURSIVE EncodeFrom(_, _)
EncodeFrom(s, k) ==
  IF k > Len(s) THEN <<>>
  ELSE IF s[k] = "%"
    THEN IF k + 2 <= Len(s) /\ s[k + 1] \in HexDigits /\ s[k + 2] \in HexDigits
           THEN <<"%", s[k + 1], s[k + 2]>> \o EncodeFrom(s, k + 3)
         ELSE <<"%", "2", "5">> \o EncodeFrom(s, k + 1)
  ELSE IF s[k] \in DOMAIN EncTable THEN EncTable[s[k]] \o EncodeFrom(s, k + 1)
  ELSE <<s[k]>> \o EncodeFrom(s, k + 1)

encodeUrl(s) == EncodeFrom(s, 1)

\* the number of leading slashes: the loop of collapseLeadingSlashes
RECURSIVE LeadingSlashes(_, _)
LeadingSlashes(str, i) ==
  IF i < Len(str) /\ str[i + 1] = Slash THEN LeadingSlashes(str, i + 1) ELSE i

\* collapseLeadingSlashes dropping one slash of the run only
collapseLeadingSlashes_DropOne(str) ==
  LET i == LeadingSlashes(str, 0)
  IN  IF i > 1 THEN Tail(str) ELSE str

collapseLeadingSlashes(str) ==
  LET i == LeadingSlashes(str, 0)
  IN  IF i > 1 THEN <<Slash>> \o SubSeq(str, i + 1, Len(str)) ELSE str

\* url.format of a parsed URL that has a pathname and a search only
UrlFormat(pathname, search) == pathname \o search

(***************************************************************************)
(* The file system the middleware is served from                           *)
(***************************************************************************)

\* the root directory given to serveStatic, already absolute
RootDir == <<"/", "r">>

\* directories, by absolute path
Dirs ==
  { <<"/">>,
    RootDir,
    <<"/", "r", "/", "u">>,          \* has an index file
    <<"/", "r", "/", "p">>,          \* has no index file
    <<"/", "r", "/", "q", "\"">>,    \* its name needs encoding in a URL
    <<"/", "r", "/", ".", "d">>,     \* its name begins with a dot
    <<"/", "r", "/", "k">> }         \* not searchable by the process

\* regular files, by absolute path, with their size in bytes
FileSize ==
  [f \in { <<"/", "r", "/", "t">>,
           <<"/", "r", "/", "u", "/", "i">>,
           <<"/", "r", "/", ".", "h">>,
           <<"/", "r", "/", ".", "d", "/", "t">>,
           <<"/", "r", "/", "u", "/", "j">>,      \* beside u/i; no m anywhere
           <<"/", "r", "/", "n">>,                \* four bytes
           <<"/", "r", "/", "u", ".", "h">>,      \* beside the directory u
           <<"/", "r", "/", "y", ".", "g">>,      \* no file y
           <<"/", "r", "/", "y", ".", "h">>,
           <<"/", "r", "/", "w", ".", "h">>,      \* no file w, no file w.g
           <<"/", "r", "/", "w", ".", "t", ".", "h">>,    \* no file w.t
           <<"/", "r", "/", "a", ".", "t">>,              \* has a compressed sibling
           <<"/", "r", "/", "a", ".", "t", ".", "g", "z">>,
           <<"/", "r", "/", "b", ".", "t", ".", "g", "z">>,    \* no file b.t
           <<"/", "t">> } |->
     IF f = <<"/", "r", "/", "u", "/", "i">> THEN 1
     ELSE IF f = <<"/", "r", "/", "n">> THEN 4 ELSE 2]

Files == DOMAIN FileSize

\* the time of the last modification of a file, in seconds
FileMtime == [f \in Files |-> IF f = <<"/", "r", "/", "t">> THEN 1 ELSE 2]

\* etag(stat): the weak validator send computes from size and mtime
StatETag(size, mtime) ==
  "W/\"" \o ToString(size) \o "-" \o ToString(mtime) \o "\""

FileETag(f) == StatETag(FileSize[f], FileMtime[f])

\* directories whose entries the process may not look up
Unsearchable == { <<"/", "r", "/", "k">> }

\* the absolute path made of the first k segments
PrefixPath(segs, k) == <<Slash>> \o JoinSegs(SubSeq(segs, 1, k))

\* the position of the last dot of a name, 0 without one
RECURSIVE LastDot(_, _)
LastDot(name, k) ==
  IF k = 0 THEN 0 ELSE IF name[k] = "." THEN k ELSE LastDot(name, k - 1)

\* path.extname(path): the extension of the last segment, from its last
\* dot, '' when the name has no dot or only begins with one
extname(path) ==
  LET segs == Split(path)
      name == segs[Len(segs)]
      k == LastDot(name, Len(name))
  IN  IF k <= 1 THEN <<>> ELSE SubSeq(name, k, Len(name))

\* fs.stat(path) of a normalized absolute path: what the callback receives
Stat(path) ==
  LET segs == NormalizeSegs(Split(path), <<>>, FALSE)
      n == Len(segs)
      full == PrefixPath(segs, n)
      ancestors == { PrefixPath(segs, k) : k \in 0..(n - 1) }
  IN  IF Len(path) > PathMax THEN "ENAMETOOLONG"
      ELSE IF ancestors \cap Unsearchable # {} THEN "EACCES"
      ELSE IF ancestors \cap Files # {} THEN "ENOTDIR"
      ELSE IF \E a \in ancestors : a \notin Dirs THEN "ENOENT"
      ELSE IF full \in Dirs THEN "dir"
      ELSE IF full \in Files
        THEN IF n > 0 /\ EndsWith(path, Slash) THEN "ENOTDIR" ELSE "file"
      ELSE "ENOENT"

\* whether an absolute path lies in the root directory
InsideRoot(path) ==
  LET segs == NormalizeSegs(Split(path), <<>>, FALSE)
      rootSegs == NormalizeSegs(Split(RootDir), <<>>, FALSE)
  IN  Len(segs) >= Len(rootSegs) /\ SubSeq(segs, 1, Len(rootSegs)) = rootSegs

(***************************************************************************)
(* serveStatic(root, options): the configuration a middleware closes over  *)
(***************************************************************************)

\* the name of the index file, 'index.html'
IndexHtml == <<"i">>

\* JavaScript values, by their literal: whether if (v) takes the branch
Truthy(v) == v \notin {"undefined", "''", "0", "false"}

\* typeof v
TypeOf(v) ==
  CASE v = "undefined" -> "undefined"
    [] v \in {"''", "fixtures"} -> "string"
    [] v \in {"0", "3", "42"} -> "number"
    [] v \in {"true", "false"} -> "boolean"
    [] v = "function" -> "function"

\* the values passed as root: nothing, the empty string, numbers, the path
\* of the fixtures directory
Roots == {"undefined", "''", "0", "42", "fixtures"}

\* the options of the header fields of a file, none of them given
NoHeaderOptions ==
  [ cacheControl |-> "undefined", maxAge |-> "undefined", maxage |-> "undefined",
    immutable |-> "undefined", acceptRanges |-> "undefined",
    etag |-> "undefined", lastModified |-> "undefined" ]

\* the options objects a caller passes without extensions; "undefined" is an
\* option not given
PlainOptions == { o @@ NoHeaderOptions : o \in
  [ fallthrough : {"undefined", "true", "false"},
    redirect    : {"undefined", "true", "false"},
    setHeaders  : {"undefined", "function", "3", "0"},
    index       : {<<>>, <<IndexHtml>>},
    extensions  : {<<>>},
    dotfiles    : {"undefined", "allow", "deny", "ignore"} ] }

\* the options objects a caller passes with extensions: ['g', 'h']
ExtensionsOptions == { o @@ NoHeaderOptions : o \in
  [ fallthrough : {"undefined", "true", "false"},
    redirect    : {"undefined", "true", "false"},
    setHeaders  : {"undefined"},
    index       : {<<>>, <<IndexHtml>>},
    extensions  : {<<<<"g">>, <<"h">>>>},
    dotfiles    : {"undefined"} ] }

\* the options objects a caller passes with index: ['m', 'j', 'index.html']
IndexOptions == { o @@ NoHeaderOptions : o \in
  [ fallthrough : {"undefined", "true", "false"},
    redirect    : {"undefined", "true", "false"},
    setHeaders  : {"undefined"},
    index       : {<< <<"m">>, <<"j">>, IndexHtml >>},
    extensions  : {<<>>},
    dotfiles    : {"undefined"} ] }

\* the options the caller gives beside those of the header fields, in the
\* families below: index.html, the rest not given
NoPathOptions ==
  [ fallthrough |-> "undefined", redirect |-> "undefined", setHeaders |-> "undefined",
    index |-> <<IndexHtml>>, extensions |-> <<>>, dotfiles |-> "undefined" ]

\* the options objects with cacheControl, maxAge and immutable: maxAge in
\* milliseconds, as the string '1h', infinite
CacheOptions == { NoPathOptions @@ o : o \in
  [ cacheControl : {"undefined", "false"},
    maxAge       : {"undefined", "1500", "1h", "Infinity"},
    maxage       : {"undefined"},
    immutable    : {"undefined", "true"},
    acceptRanges : {"undefined"},
    etag         : {"undefined"},
    lastModified : {"undefined"} ] }

\* the options objects with maxage, the name send knows as well
MaxageOptions == { NoPathOptions @@ o : o \in
  [ cacheControl : {"undefined"},
    maxAge       : {"undefined", "1500"},
    maxage       : {"2000"},
    immutable    : {"undefined"},
    acceptRanges : {"undefined"},
    etag         : {"undefined"},
    lastModified : {"undefined"} ] }

\* the options objects with acceptRanges, etag and lastModified
ValidatorOptions == { NoPathOptions @@ o : o \in
  [ cacheControl : {"undefined"},
    maxAge       : {"undefined"},
    maxage       : {"undefined"},
    immutable    : {"undefined"},
    acceptRanges : {"true", "false"},
    etag         : {"undefined", "false"},
    lastModified : {"undefined", "false"} ] }

Options ==
  PlainOptions \cup ExtensionsOptions \cup IndexOptions
    \cup CacheOptions \cup MaxageOptions \cup ValidatorOptions

\* opts.root when send is given no root
NoRoot == <<>>

\* opts.root never set
OptsRoot_Unset == NoRoot

\* opts.root = resolve(root)
OptsRoot == Resolve(RootDir)

\* the arguments of a call of serveStatic that has returned or thrown
NoCall ==
  [ root |-> "undefined",
    options |-> [ fallthrough |-> "undefined", redirect |-> "undefined",
                  setHeaders |-> "undefined", index |-> <<>>,
                  extensions |-> <<>>, dotfiles |-> "undefined" ] @@ NoHeaderOptions ]

\* opts.maxage = opts.maxage || opts.maxAge || 0
OptsMaxage(options) ==
  IF Truthy(options.maxage) THEN options.maxage
  ELSE IF Truthy(options.maxAge) THEN options.maxAge
  ELSE "0"

\* opts bound to the caller's options object itself
OptsObject_Shared == "options"

\* const opts = Object.create(options || null): the object opts is bound
\* to is a new one, with the caller's options object as its prototype
OptsObject == "created"

\* the properties the constructor assigns, opts.maxage and opts.root, that
\* land on the caller's options object: those assigned on opts when opts is
\* that object
AssignedOnCaller ==
  IF OptsObject = "options" THEN {"maxage", "root"} ELSE {}

\* the closure of the middleware returned by serveStatic(root, options):
\* opts is a new object that inherits every option of the caller's and has
\* maxage and root of its own
Construct(options) ==
  [ args        |-> NoCall,
    thrown      |-> "",
    fallthrough |-> options.fallthrough # "false",
    redirect    |-> options.redirect # "false",
    setHeaders  |-> Truthy(options.setHeaders),
    onDirectory |-> IF options.redirect # "false" THEN "redirect" ELSE "notFound",
    assigned    |-> AssignedOnCaller,
    opts        |-> [ root         |-> OptsRoot,
                      maxage       |-> OptsMaxage(options),
                      index        |-> options.index,
                      extensions   |-> options.extensions,
                      dotfiles     |-> options.dotfiles,
                      cacheControl |-> options.cacheControl,
                      maxAge       |-> options.maxAge,
                      immutable    |-> options.immutable,
                      acceptRanges |-> options.acceptRanges,
                      etag         |-> options.etag,
                      lastModified |-> options.lastModified ] ]

\* the options of a stream no middleware has made
NoOpts ==
  [ root |-> NoRoot, maxage |-> "0", index |-> <<>>, extensions |-> <<>>,
    dotfiles |-> "undefined", cacheControl |-> "undefined", maxAge |-> "undefined",
    immutable |-> "undefined", acceptRanges |-> "undefined",
    etag |-> "undefined", lastModified |-> "undefined" ]

\* no middleware: serveStatic has not returned, or has thrown
NoMiddleware ==
  [ args        |-> NoCall,
    thrown      |-> "",
    fallthrough |-> TRUE,
    redirect    |-> TRUE,
    setHeaders  |-> FALSE,
    onDirectory |-> "notFound",
    assigned    |-> {},
    opts        |-> NoOpts ]

\* throw new TypeError(message)
Throw(message) == [NoMiddleware EXCEPT !.thrown = message]

\* serveStatic with setHeaders tested before root
serveStatic_SetHeadersFirst(root, options) ==
  IF Truthy(options.setHeaders) /\ TypeOf(options.setHeaders) # "function"
    THEN Throw("option setHeaders must be function")
  ELSE IF ~Truthy(root) THEN Throw("root path required")
  ELSE IF TypeOf(root) # "string" THEN Throw("root path must be a string")
  ELSE Construct(options)

\* serveStatic(root, options): the checks of the arguments, then the closure
serveStatic(root, options) ==
  IF ~Truthy(root) THEN Throw("root path required")
  ELSE IF TypeOf(root) # "string" THEN Throw("root path must be a string")
  ELSE IF Truthy(options.setHeaders) /\ TypeOf(options.setHeaders) # "function"
    THEN Throw("option setHeaders must be function")
  ELSE Construct(options)

(***************************************************************************)
(* Requests                                                                *)
(***************************************************************************)

Methods == {"GET", "HEAD", "POST", "OPTIONS"}

\* a path longer than the operating system allows
LongPath == <<Slash>> \o [k \in 1..PathMax |-> "x"]

\* every string of slashes and the letter u, up to a length
SlashStrings ==
  UNION { [1..n -> {Slash, "u"}] : n \in 0..SlashMax }

\* the request paths among them: a request path begins with a slash
SlashPaths == { s \in SlashStrings : StartsWith(s, Slash) }

\* the request paths below the mount point
Paths ==
  SlashPaths \cup
  { <<"/">>,
    <<"/", "t">>,
    <<"/", "t", "/">>,
    <<"/", "u">>,
    <<"/", "u", "/">>,
    <<"/", "p">>,
    <<"/", "p", "/">>,
    <<"/", "/", "u">>,
    <<"/", "q", "\"">>,
    <<"/", "x">>,
    <<"/", ".", "h">>,
    <<"/", ".", "d", "/", "t">>,
    <<"/", "y">>,
    <<"/", "w">>,
    <<"/", "w", ".", "t">>,
    <<"/", "k">>,
    <<"/", "k", "/", "t">>,
    <<"/", "%">>,
    <<"/", "u", "/", ".", ".", "/", "t">>,
    <<"/", "u", "/", ".", ".", "/", ".", ".", "/", "t">>,
    <<"/", "%", "2", "e", "%", "2", "e", "/", "t">>,
    LongPath }

\* the path the host has stripped from the URL before the middleware runs
Mounts == { <<>>, <<"/", "m">> }

Searches == { <<>>, <<"?", "n">> }

\* a validator header of the request: absent, an ETag no file has, the
\* ETag of the file /t
IfMatchValues == {"absent", "other"}

IfNoneMatchValues == {"absent", FileETag(<<"/", "r", "/", "t">>)}

\* parseInt of a position that is not given
NaN == 0 - 1

\* parseHttpDate of a header field that is not given
NoDate == 0 - 1

\* no Range header field
NoRange == [given |-> FALSE, unit |-> "", specs |-> <<>>]

\* the Range header field 'bytes=first-last': NaN for a position left out
Bytes(first, last) ==
  [given |-> TRUE, unit |-> "bytes", specs |-> << [first |-> first, last |-> last] >>]

\* the Range header fields of the requests for the file n of four bytes:
\* no '=', another unit, ranges inside the file, beyond its end, open,
\* suffix, first position at the size, last before first, two ranges
RangeValues ==
  { [given |-> TRUE, unit |-> "asdf", specs |-> <<>>],
    [given |-> TRUE, unit |-> "items", specs |-> << [first |-> 0, last |-> 1] >>],
    Bytes(0, 0), Bytes(1, 2), Bytes(1, 9), Bytes(3, NaN), Bytes(NaN, 2),
    Bytes(4, 9), Bytes(3, 1),
    [given |-> TRUE, unit |-> "bytes",
     specs |-> << [first |-> 0, last |-> 0], [first |-> 2, last |-> 3] >>],
    [given |-> TRUE, unit |-> "bytes",
     specs |-> << [first |-> 0, last |-> 1], [first |-> 2, last |-> 3] >>] }

\* no If-Range header field
NoIfRange == [kind |-> "absent", etag |-> "", date |-> NoDate]

\* the If-Range header fields: the ETag of n and another, dates before, at
\* and after the time n was modified
IfRangeValues ==
  { [kind |-> "etag", etag |-> e, date |-> NoDate] :
      e \in {FileETag(<<"/", "r", "/", "n">>), "\"other\""} }
  \cup
  { [kind |-> "date", etag |-> "", date |-> d] : d \in 1..3 }

\* the rest of the path after the mount: empty only at a mount point
RestsOf(mount) == IF mount = <<>> THEN Paths ELSE Paths \cup {<<>>}

\* req.url and req.originalUrl as a host that mounts the middleware sets them
RequestsAt(mount) ==
  { [ method           |-> m,
      mount            |-> mount,
      url              |-> IF rest = <<>> THEN <<Slash>> ELSE rest,
      originalPathname |-> mount \o rest,
      search           |-> search,
      ifMatch          |-> im,
      ifNoneMatch      |-> inm,
      ifModifiedSince   |-> NoDate,
      ifUnmodifiedSince |-> NoDate,
      range            |-> NoRange,
      ifRange          |-> NoIfRange ] :
      m \in Methods,
      rest \in RestsOf(mount),
      search \in Searches,
      im \in IfMatchValues,
      inm \in IfNoneMatchValues }

Requests == UNION { RequestsAt(mount) : mount \in Mounts }

NoRequest ==
  [ method |-> "", mount |-> <<>>, url |-> <<>>, originalPathname |-> <<>>, search |-> <<>>,
    ifMatch |-> "absent", ifNoneMatch |-> "absent",
    ifModifiedSince |-> NoDate, ifUnmodifiedSince |-> NoDate,
    range |-> NoRange, ifRange |-> NoIfRange ]

\* GET of a path with no header field that matters
Get(path) ==
  [NoRequest EXCEPT !.method = "GET", !.url = path, !.originalPathname = path]

\* the requests for the file n with a Range, and with an If-Range beside a
\* range inside the file and one beyond it
RangeRequests ==
  { [Get(<<"/", "n">>) EXCEPT !.range = r] : r \in RangeValues }
  \cup
  { [Get(<<"/", "n">>) EXCEPT !.range = r, !.ifRange = ir] :
      r \in {Bytes(1, 2), Bytes(4, 9)}, ir \in IfRangeValues }

\* the requests for the file n, modified at second 2, with conditions: an
\* If-Match no file has, the ETag of n in If-None-Match, dates before and
\* at the time of modification, with and without a range
ConditionalRequests ==
  { [Get(<<"/", "n">>) EXCEPT !.ifMatch = im, !.ifNoneMatch = inm,
                             !.ifModifiedSince = ims, !.ifUnmodifiedSince = ius,
                             !.range = r] :
      im \in IfMatchValues \cup {"*"},
      inm \in {"absent", FileETag(<<"/", "r", "/", "n">>), "\"other\""},
      ims \in {NoDate, 1, 2},
      ius \in {NoDate, 1, 2},
      r \in {NoRange, Bytes(1, 2)} }

\* the requests sent to look at the header fields of a file
HeaderRequests == RangeRequests \cup ConditionalRequests

\* a query string with the characters that have a meaning in HTML
MarkupSearch == <<"?", "&", "'", "<", "\"", ">">>

\* the requests with no header field that matters: a file, a directory
\* with and without the slash, a path that does not exist, a path that
\* ends in a '..' segment, with and without the slash, a directory with a
\* query string
BasicRequests ==
  { Get(path) : path \in { <<"/", "n">>, <<"/", "u", "/">>, <<"/", "u">>, <<"/", "x">>,
                           <<"/", "u", "/", ".", ".">>,
                           <<"/", "u", "/", ".", ".", "/">> } }
  \cup { [Get(<<"/", "u">>) EXCEPT !.search = MarkupSearch] }

\* whether the caller gave an option of the Cache-Control header field
CacheOptionsGiven(opts) ==
  \/ opts.maxage # "0"
  \/ \E name \in {"cacheControl", "maxAge", "immutable"} : opts[name] # "undefined"

\* whether the caller gave an option of the header fields of a file
HeaderOptionsGiven(opts) ==
  \E name \in DOMAIN NoHeaderOptions \ {"maxage"} : opts[name] # "undefined"

\* whether the caller gave an option about paths other than index.html
PathOptionsGiven(c) ==
  \/ c.opts.index # <<IndexHtml>> \/ c.opts.extensions # <<>>
  \/ c.opts.dotfiles # "undefined" \/ c.setHeaders

\* the requests sent to a middleware: those about paths to one made without
\* an option of the header fields; to one made with no option about paths,
\* the basic ones, and those about ranges and conditions unless it was
\* made with an option of Cache-Control
RequestsFor(c) ==
  (IF HeaderOptionsGiven(c.opts) \/ c.opts.maxage # "0" THEN {} ELSE Requests)
  \cup
  (IF PathOptionsGiven(c) THEN {}
   ELSE BasicRequests
          \cup (IF CacheOptionsGiven(c.opts) THEN {} ELSE HeaderRequests))

(***************************************************************************)
(* The response, the next handler, the send stream                         *)
(***************************************************************************)

VARIABLES
  cfg,           \* the closure of the middleware
  req,           \* the request being handled
  res,           \* the response: statusCode, headers, ended, body
  stream,        \* the send stream of the request
  forwardError,  \* the variable forwardError of the request
  nextCalls,     \* the calls of next, in order, with their argument
  hookCalls,     \* the calls of options.setHeaders, with what each one saw
  events,        \* the events the stream has emitted, in order
  pc,            \* where the handling of the request stands
  history,       \* the requests of the client already answered, in order
  parked         \* the request in flight whose next event is not the next to run

vars ==
  <<cfg, req, res, stream, forwardError, nextCalls, hookCalls, events, pc, history, parked>>

NoHeaders == [h \in {} |-> ""]

\* a response body: nothing, the redirect document, an error document, or
\* the bytes of a file
NoBody == [kind |-> "none", href |-> <<>>, text |-> <<>>, first |-> 0, last |-> 0 - 1]

FreshResponse ==
  [ statusCode |-> 200, headers |-> NoHeaders, ended |-> FALSE,
    body |-> NoBody, sent |-> 0 ]

SetHeader(r, name, value) ==
  [r EXCEPT !.headers =
     [h \in DOMAIN r.headers \cup {name} |-> IF h = name THEN value ELSE r.headers[h]]]

RemoveHeader(r, name) ==
  [r EXCEPT !.headers = [h \in DOMAIN r.headers \ {name} |-> r.headers[h]]]

HasHeader(r, name) == name \in DOMAIN r.headers

NoStream ==
  [ created |-> FALSE, path |-> <<>>,
    opts |-> NoOpts,
    listeners |-> {}, target |-> <<>>, idx |-> 0 ]

\* next(): no argument
NoArg == [hasErr |-> FALSE, statusCode |-> 0, tag |-> ""]

\* next(err)
ErrArg(err) == [hasErr |-> TRUE, statusCode |-> err.statusCode, tag |-> err.tag]

\* createHttpError(status, err): the error the stream emits
HttpError(status, code) ==
  [ statusCode |-> status,
    tag |-> IF code # "" THEN code
            ELSE CASE status = 400 -> "BadRequestError"
                   [] status = 403 -> "ForbiddenError"
                   [] status = 404 -> "NotFoundError"
                   [] status = 412 -> "PreconditionFailedError"
                   [] status = 416 -> "RangeNotSatisfiableError"
                   [] OTHER -> "InternalServerError" ]

\* an event of the stream; an 'error' event carries the error
Ev(name) == [name |-> name, statusCode |-> 0, tag |-> ""]

ErrorEv(err) == [name |-> "error", statusCode |-> err.statusCode, tag |-> err.tag]

Init ==
  /\ \E root \in Roots, options \in Options :
       cfg = [NoMiddleware EXCEPT !.args = [root |-> root, options |-> options]]
  /\ req = NoRequest
  /\ res = FreshResponse
  /\ stream = NoStream
  /\ forwardError = FALSE
  /\ nextCalls = <<>>
  /\ hookCalls = <<>>
  /\ events = <<>>
  /\ pc = "new"
  /\ history = <<>>
  /\ parked = <<>>

(***************************************************************************)
(* send: SendStream.prototype.pipe up to the first stat                    *)
(***************************************************************************)

\* UP_PATH_REGEXP: the path has a '..' segment
UpPath(p) == \E k \in 1..Len(Split(p)) : Split(p)[k] = DotDot

containsDotFile(parts) ==
  \E k \in 1..Len(parts) : Len(parts[k]) > 1 /\ parts[k][1] = "."

hasTrailingSlash(path) == EndsWith(path, Slash)

\* pipe(res) rejecting every path with a '..' segment, normalized or not
PipeOutcome_UpPathBeforeNormalize(path, opts) ==
  LET dec == Decode(path)
      rooted == opts.root # NoRoot
      rel == IF rooted /\ Len(dec.val) > 0
               THEN Normalize(<<".", Slash>> \o dec.val) ELSE dec.val
      parts == IF rooted THEN Split(rel) ELSE Split(Normalize(rel))
      abs == IF rooted THEN Normalize(Join(opts.root, rel)) ELSE Resolve(rel)
      access == IF opts.dotfiles = "undefined" THEN "ignore" ELSE opts.dotfiles
  IN  IF ~dec.ok THEN [kind |-> "error", statusCode |-> 400, target |-> <<>>]
      ELSE IF UpPath(dec.val) THEN [kind |-> "error", statusCode |-> 403, target |-> <<>>]
      ELSE IF containsDotFile(parts) /\ access = "deny"
        THEN [kind |-> "error", statusCode |-> 403, target |-> <<>>]
      ELSE IF containsDotFile(parts) /\ access # "allow"
        THEN [kind |-> "error", statusCode |-> 404, target |-> <<>>]
      ELSE IF Len(opts.index) > 0 /\ hasTrailingSlash(path)
        THEN [kind |-> "index", statusCode |-> 0, target |-> abs]
      ELSE [kind |-> "file", statusCode |-> 0, target |-> abs]

\* what pipe(res) decides before it returns: an error to report, or the
\* absolute path to stat as a file or as a directory with an index
PipeOutcome(path, opts) ==
  LET dec == Decode(path)
      rooted == opts.root # NoRoot
      rel == IF rooted /\ Len(dec.val) > 0
               THEN Normalize(<<".", Slash>> \o dec.val) ELSE dec.val
      parts == IF rooted THEN Split(rel) ELSE Split(Normalize(rel))
      abs == IF rooted THEN Normalize(Join(opts.root, rel)) ELSE Resolve(rel)
      access == IF opts.dotfiles = "undefined" THEN "ignore" ELSE opts.dotfiles
  IN  IF ~dec.ok THEN [kind |-> "error", statusCode |-> 400, target |-> <<>>]
      ELSE IF UpPath(rel) THEN [kind |-> "error", statusCode |-> 403, target |-> <<>>]
      ELSE IF containsDotFile(parts) /\ access = "deny"
        THEN [kind |-> "error", statusCode |-> 403, target |-> <<>>]
      ELSE IF containsDotFile(parts) /\ access # "allow"
        THEN [kind |-> "error", statusCode |-> 404, target |-> <<>>]
      ELSE IF Len(opts.index) > 0 /\ hasTrailingSlash(path)
        THEN [kind |-> "index", statusCode |-> 0, target |-> abs]
      ELSE [kind |-> "file", statusCode |-> 0, target |-> abs]

(***************************************************************************)
(* The listeners the middleware attaches to the stream                     *)
(***************************************************************************)

\* the listener with the test of the status code negated
ErrorListener_Negated(fe, err) ==
  IF fe \/ err.statusCode < 500 THEN ErrArg(err) ELSE NoArg

\* the listener without the test of the status code
ErrorListener_FlagOnly(fe, err) ==
  IF fe THEN ErrArg(err) ELSE NoArg

\* an error that has no statusCode property
NoStatusCode == -1

\* a < b of two numbers; false when a is undefined
Less(a, b) == a # NoStatusCode /\ a < b

\* the listener with the test written err.statusCode >= 500
ErrorListener_AtLeast500(fe, err) ==
  IF fe \/ (err.statusCode # NoStatusCode /\ err.statusCode >= 500) THEN ErrArg(err) ELSE NoArg

\* the 'error' listener: forward the error or fall through
ErrorListener(fe, err) ==
  IF fe \/ ~Less(err.statusCode, 500) THEN ErrArg(err) ELSE NoArg

\* SendStream.prototype.error(status, err): with an 'error' listener the
\* stream emits the error, without one it answers the request itself
\*   st: the stream, fe: forwardError, r: the response so far,
\*   ev: the events so far
EmitError(st, fe, r, ev, status, code) ==
  IF "error" \in st.listeners
    THEN /\ nextCalls' = Append(nextCalls, ErrorListener(fe, HttpError(status, code)))
         /\ res' = r
         /\ events' = Append(ev, ErrorEv(HttpError(status, code)))
    ELSE /\ nextCalls' = nextCalls
         /\ res' = [r EXCEPT !.statusCode = status, !.ended = TRUE, !.body = [NoBody EXCEPT !.kind = "error"]]
         /\ events' = ev

\* a directory listener that returns without reporting anything
notFound_Silent(st, fe, r, ev) ==
  /\ nextCalls' = nextCalls
  /\ res' = r
  /\ events' = ev

\* the listener of createNotFoundDirectoryListener
notFound(st, fe, r, ev) == EmitError(st, fe, r, ev, 404, "")

\* the status code of the directory redirect
RedirectStatus == 301

\* escape-html
RECURSIVE escapeHtml(_)
escapeHtml(str) ==
  IF Len(str) = 0 THEN <<>>
  ELSE (CASE Head(str) = "\"" -> <<"&", "q", "u", "o", "t", ";">>
          [] Head(str) = "&" -> <<"&", "a", "m", "p", ";">>
          [] Head(str) = "'" -> <<"&", "#", "3", "9", ";">>
          [] Head(str) = "<" -> <<"&", "l", "t", ";">>
          [] Head(str) = ">" -> <<"&", "g", "t", ";">>
          [] OTHER -> <<Head(str)>>) \o escapeHtml(Tail(str))

\* the Location built from the URL below the mount point
RedirectLocation_MountRelative(rq) ==
  encodeUrl(UrlFormat(collapseLeadingSlashes(rq.url \o <<Slash>>), rq.search))

\* the Location of the redirect for a request
RedirectLocation(rq) ==
  encodeUrl(UrlFormat(collapseLeadingSlashes(rq.originalPathname \o <<Slash>>), rq.search))

\* the redirect response with the link text not escaped
RedirectResponse_RawText(r, loc) ==
  LET r1 == [r EXCEPT !.statusCode = RedirectStatus]
      r2 == SetHeader(r1, "Content-Type", "text/html; charset=UTF-8")
      r3 == SetHeader(r2, "Content-Length", "byteLength(doc)")
      r4 == SetHeader(r3, "Content-Security-Policy", "default-src 'none'")
      r5 == SetHeader(r4, "X-Content-Type-Options", "nosniff")
      r6 == SetHeader(r5, "Location", loc)
  IN  [r6 EXCEPT !.ended = TRUE,
                 !.body = [NoBody EXCEPT !.kind = "redirect", !.href = escapeHtml(loc),
                                         !.text = loc]]

\* the redirect response: status, header fields, the HTML document
RedirectResponse(r, loc) ==
  LET r1 == [r EXCEPT !.statusCode = RedirectStatus]
      r2 == SetHeader(r1, "Content-Type", "text/html; charset=UTF-8")
      r3 == SetHeader(r2, "Content-Length", "byteLength(doc)")
      r4 == SetHeader(r3, "Content-Security-Policy", "default-src 'none'")
      r5 == SetHeader(r4, "X-Content-Type-Options", "nosniff")
      r6 == SetHeader(r5, "Location", loc)
  IN  [r6 EXCEPT !.ended = TRUE,
                 !.body = [NoBody EXCEPT !.kind = "redirect", !.href = escapeHtml(loc),
                                         !.text = escapeHtml(loc)]]

\* redirect without the test of the trailing slash
redirect_Always(st, fe, r, ev, rq) ==
  /\ res' = RedirectResponse(r, RedirectLocation(rq))
  /\ nextCalls' = nextCalls
  /\ events' = ev

\* redirect without the return that follows this.error(404)
redirect_NoReturn(st, fe, r, ev, rq) ==
  IF hasTrailingSlash(st.path)
    THEN /\ nextCalls' = Append(nextCalls, ErrorListener(fe, HttpError(404, "")))
         /\ res' = RedirectResponse(r, RedirectLocation(rq))
         /\ events' = Append(ev, ErrorEv(HttpError(404, "")))
    ELSE /\ res' = RedirectResponse(r, RedirectLocation(rq))
         /\ nextCalls' = nextCalls
         /\ events' = ev

\* the listener of createRedirectDirectoryListener
redirect(st, fe, r, ev, rq) ==
  IF hasTrailingSlash(st.path)
    THEN EmitError(st, fe, r, ev, 404, "")
    ELSE /\ res' = RedirectResponse(r, RedirectLocation(rq))
         /\ nextCalls' = nextCalls
         /\ events' = ev

\* the 'directory' event with the not-found listener whatever the option
EmitDirectory_NeverRedirect(st, fe, r, ev, rq) ==
  notFound(st, fe, r, Append(ev, Ev("directory")))

\* the 'directory' event with the listener chosen at construction
EmitDirectory(st, fe, r, ev, rq) ==
  IF cfg.onDirectory = "redirect"
    THEN redirect(st, fe, r, Append(ev, Ev("directory")), rq)
    ELSE notFound(st, fe, r, Append(ev, Ev("directory")))

(***************************************************************************)
(* send: SendStream.prototype.send, the answer for a file                  *)
(***************************************************************************)

\* a call setHeaders(res, path, stat): the path, and of the response the
\* header fields already set and the bytes of the body already written
HookCall(st, r) ==
  [path |-> st.target, seen |-> DOMAIN r.headers, sent |-> r.sent]

\* setGzipHeaders(res, path) of the static-gzip variant
setGzipHeaders(r) ==
  LET r1 == SetHeader(r, "Content-Type", "mime type of the path")
      r2 == SetHeader(r1, "Content-Encoding", "gzip")
  IN  SetHeader(r2, "Vary", IF HasHeader(r, "Vary") THEN r.headers["Vary"]
                                                    ELSE "Accept-Encoding")

\* the 'headers' event: options.setHeaders, when it is attached; in the
\* static-gzip variant setGzipHeaders, when that one is attached instead
EmitHeaders(st, r) ==
  IF "headers" \in st.listeners THEN SetHeader(r, "x-custom", "set")
  ELSE IF "gzipHeaders" \in st.listeners THEN setGzipHeaders(r)
  ELSE r

\* an option of send that is on unless it is given and falsy
OnByDefault(v) == v = "undefined" \/ Truthy(v)

\* an option of send that is off unless it is given and truthy
OffByDefault(v) == v # "undefined" /\ Truthy(v)

\* the number of milliseconds of a maxAge value: a number, a string for
\* ms(), Infinity
Milliseconds(v) ==
  CASE v = "0"        -> [inf |-> FALSE, sec |-> 0, msec |-> 0]
    [] v = "1500"     -> [inf |-> FALSE, sec |-> 1, msec |-> 500]
    [] v = "2000"     -> [inf |-> FALSE, sec |-> 2, msec |-> 0]
    [] v = "1h"       -> [inf |-> FALSE, sec |-> 3600, msec |-> 0]
    [] v = "Infinity" -> [inf |-> TRUE, sec |-> 0, msec |-> 0]

\* MAX_MAXAGE: one year
MaxMaxage == [inf |-> FALSE, sec |-> 60 * 60 * 24 * 365, msec |-> 0]

\* the maxage a stream works with: opts.maxAge || opts.maxage, at most
\* MAX_MAXAGE
StreamMaxage(opts) ==
  LET d == Milliseconds(IF Truthy(opts.maxAge) THEN opts.maxAge ELSE opts.maxage)
  IN  IF d.inf \/ d.sec >= MaxMaxage.sec THEN MaxMaxage ELSE d

\* the Cache-Control of a file with 'immutable' only for a positive maxage
CacheControl_ImmutableIfPositive(opts) ==
  "public, max-age=" \o ToString(StreamMaxage(opts).sec)
    \o (IF OffByDefault(opts.immutable) /\ StreamMaxage(opts) # Milliseconds("0")
          THEN ", immutable" ELSE "")

\* the Cache-Control of a file: the whole seconds of the maxage, and
\* 'immutable' when the option is set
CacheControl(opts) ==
  "public, max-age=" \o ToString(StreamMaxage(opts).sec)
    \o (IF OffByDefault(opts.immutable) THEN ", immutable" ELSE "")

\* setHeader(path, stat) and type(path): the header fields of a file, each
\* one when its option is on
FileHeaders(st, r) ==
  LET r1 == IF OnByDefault(st.opts.acceptRanges)
              THEN SetHeader(r, "Accept-Ranges", "bytes") ELSE r
      r2 == IF OnByDefault(st.opts.cacheControl)
              THEN SetHeader(r1, "Cache-Control", CacheControl(st.opts)) ELSE r1
      r3 == IF OnByDefault(st.opts.lastModified)
              THEN SetHeader(r2, "Last-Modified", FileMtime[st.target]) ELSE r2
      r4 == IF OnByDefault(st.opts.etag)
              THEN SetHeader(r3, "ETag", FileETag(st.target)) ELSE r3
  IN  IF HasHeader(r4, "Content-Type") THEN r4
      ELSE SetHeader(r4, "Content-Type", "mime type")

isConditionalGET(rq) ==
  \/ rq.ifMatch # "absent"
  \/ rq.ifUnmodifiedSince # NoDate
  \/ rq.ifNoneMatch # "absent"
  \/ rq.ifModifiedSince # NoDate

\* a precondition check that looks at If-Match only
isPreconditionFailure_IfMatchOnly(rq, r) ==
  /\ rq.ifMatch # "absent"
  /\ \/ ~HasHeader(r, "ETag")
     \/ rq.ifMatch # "*" /\ rq.ifMatch # r.headers["ETag"]

\* If-Match names no validator that matches the ETag of the response; with
\* no If-Match, the file was modified after If-Unmodified-Since
isPreconditionFailure(rq, r) ==
  IF rq.ifMatch # "absent"
    THEN \/ ~HasHeader(r, "ETag")
         \/ rq.ifMatch # "*" /\ rq.ifMatch # r.headers["ETag"]
  ELSE IF rq.ifUnmodifiedSince # NoDate
    THEN \/ ~HasHeader(r, "Last-Modified")
         \/ r.headers["Last-Modified"] > rq.ifUnmodifiedSince
  ELSE FALSE

\* isCachable without the look at the status code
isCachable_Always(r) == TRUE

\* isCachable(): the status code of the response is 2xx or 304
isCachable(r) ==
  (r.statusCode >= 200 /\ r.statusCode < 300) \/ r.statusCode = 304

\* If-None-Match is '*' or names the ETag of the response
NoneMatchFresh(rq, r) ==
  \/ rq.ifNoneMatch = "*"
  \/ HasHeader(r, "ETag") /\ rq.ifNoneMatch = r.headers["ETag"]

\* the response was last modified no later than If-Modified-Since
ModifiedSinceFresh(rq, r) ==
  HasHeader(r, "Last-Modified") /\ r.headers["Last-Modified"] <= rq.ifModifiedSince

\* a stream that never takes a response for fresh
isFresh_Never(rq, r) == FALSE

\* fresh(req.headers, res headers): If-None-Match decides when it is given,
\* If-Modified-Since when it is not. An older release of fresh wants both
\* to hold when both are given; the two differ only for a request whose
\* If-None-Match matches and whose If-Modified-Since is earlier than the
\* modification, and no request of the model is one (ReleaseIndependent).
isFresh(rq, r) ==
  IF rq.ifNoneMatch # "absent" THEN NoneMatchFresh(rq, r)
  ELSE IF rq.ifModifiedSince # NoDate THEN ModifiedSinceFresh(rq, r)
  ELSE FALSE

\* isNaN
isNaN(x) == x = NaN

\* the positions of a range with a last position left beyond the end
RangePositions_NoClamp(size, spec) ==
  LET start == IF isNaN(spec.first) THEN size - spec.last ELSE spec.first
      end == IF isNaN(spec.first) \/ isNaN(spec.last) THEN size - 1 ELSE spec.last
  IN  [start |-> start, end |-> end,
       valid |-> ~(isNaN(spec.first) /\ isNaN(spec.last)) /\ start <= end /\ start >= 0]

\* one range of the header made positions of a file of the given size:
\* a suffix counts from the end, an open range runs to the end, a last
\* position beyond the end is the end
RangePositions(size, spec) ==
  LET start == IF isNaN(spec.first) THEN size - spec.last ELSE spec.first
      end0 == IF isNaN(spec.first) \/ isNaN(spec.last) THEN size - 1 ELSE spec.last
      end == IF end0 > size - 1 THEN size - 1 ELSE end0
  IN  [start |-> start, end |-> end,
       valid |-> ~(isNaN(spec.first) /\ isNaN(spec.last)) /\ start <= end /\ start >= 0]

\* combineRanges: ranges that overlap or touch become one
combineRanges(ranges) ==
  IF Len(ranges) # 2 THEN ranges
  ELSE LET a == IF ranges[1].start <= ranges[2].start THEN ranges[1] ELSE ranges[2]
           b == IF ranges[1].start <= ranges[2].start THEN ranges[2] ELSE ranges[1]
       IN  IF b.start > a.end + 1 THEN ranges
           ELSE << [a EXCEPT !.end = IF b.end > a.end THEN b.end ELSE a.end] >>

\* the result of parseRange: the ranges, unsatisfiable (-1), malformed (-2)
RangeResult(code, ranges) == [code |-> code, ranges |-> ranges]

\* a parser that takes a header with no range inside the file for malformed
parseRange_NeverUnsatisfiable(size, range) ==
  LET all == [k \in 1..Len(range.specs) |-> RangePositions(size, range.specs[k])]
      ranges == SelectSeq(all, LAMBDA x : x.valid)
  IN  IF ranges = <<>> THEN RangeResult(0 - 2, <<>>)
      ELSE RangeResult(0, combineRanges(ranges))

\* parseRange(size, header, {combine: true})
parseRange(size, range) ==
  LET all == [k \in 1..Len(range.specs) |-> RangePositions(size, range.specs[k])]
      ranges == SelectSeq(all, LAMBDA x : x.valid)
  IN  IF range.specs = <<>> THEN RangeResult(0 - 2, <<>>)
      ELSE IF ranges = <<>> THEN RangeResult(0 - 1, <<>>)
      ELSE RangeResult(0, combineRanges(ranges))

\* BYTES_RANGE_REGEXP.test(header): the header starts with 'bytes='
IsBytesRange(range) == range.given /\ range.unit = "bytes"

\* a stream that takes every If-Range for fresh
isRangeFresh_Always(rq, r) == TRUE

\* isRangeFresh(): no If-Range, one that holds the ETag of the response, or
\* a date no earlier than its Last-Modified
isRangeFresh(rq, r) ==
  CASE rq.ifRange.kind = "absent" -> TRUE
    [] rq.ifRange.kind = "etag" ->
         HasHeader(r, "ETag") /\ rq.ifRange.etag = r.headers["ETag"]
    [] rq.ifRange.kind = "date" ->
         HasHeader(r, "Last-Modified") /\ r.headers["Last-Modified"] <= rq.ifRange.date

\* a stream that reads the Range header whatever acceptRanges says
RangeOf_AlwaysAccept(st, rq, r) ==
  IF ~IsBytesRange(rq.range) THEN RangeResult(0 - 2, <<>>)
  ELSE IF ~isRangeFresh(rq, r) THEN RangeResult(0 - 2, <<>>)
  ELSE parseRange(FileSize[st.target], rq.range)

\* the ranges send works with: the Range header is read when acceptRanges
\* is on and it starts with 'bytes=', and dropped when If-Range is stale
RangeOf(st, rq, r) ==
  IF ~(OnByDefault(st.opts.acceptRanges) /\ IsBytesRange(rq.range))
    THEN RangeResult(0 - 2, <<>>)
  ELSE IF ~isRangeFresh(rq, r) THEN RangeResult(0 - 2, <<>>)
  ELSE parseRange(FileSize[st.target], rq.range)

\* contentRange('bytes', size, range)
ContentRange(size, range) ==
  "bytes " \o ToString(range.start) \o "-" \o ToString(range.end)
    \o "/" \o ToString(size)

\* contentRange('bytes', size)
ContentRangeUnsatisfied(size) == "bytes */" \o ToString(size)

\* the number of bytes of the body of a response
BodyLength(r) == r.body.last - r.body.first + 1

\* notModified(): the content header fields go, the status is 304
NotModified(r) ==
  LET r1 == RemoveHeader(r, "Content-Type")
      r2 == RemoveHeader(r1, "Content-Length")
  IN  [r2 EXCEPT !.statusCode = 304, !.ended = TRUE]

\* a 'file' listener that leaves forwardError alone
onFile_Noop(fe) == fe

\* the 'file' listener of the middleware: once a file is determined,
\* always forward the error
onFile(fe) == TRUE

\* emit('file') and send(path, stat) for the file at st.target:
\* the 'file' listener of the middleware runs first
SendFile(st, r, ev, rq) ==
  LET fe == IF "file" \in st.listeners THEN onFile(forwardError) ELSE forwardError
      ev1 == Append(ev, Ev("file"))
      r1 == FileHeaders(st, EmitHeaders(st, r))
      ev2 == Append(ev1, Ev("headers"))
      size == FileSize[st.target]
      parsed == RangeOf(st, rq, r1)
      partial == parsed.code = 0 /\ Len(parsed.ranges) = 1
      first == IF partial THEN parsed.ranges[1].start ELSE 0
      last == IF partial THEN parsed.ranges[1].end ELSE size - 1
      rp == IF partial
              THEN [SetHeader(r1, "Content-Range", ContentRange(size, parsed.ranges[1]))
                      EXCEPT !.statusCode = 206]
              ELSE r1
      r2 == SetHeader(rp, "Content-Length", last - first + 1)
  IN  /\ forwardError' = fe
      /\ hookCalls' = IF "headers" \in st.listeners
                         THEN Append(hookCalls, HookCall(st, r)) ELSE hookCalls
      /\   IF isConditionalGET(rq) /\ isPreconditionFailure(rq, r1)
             THEN /\ EmitError(st, fe, r1, ev2, 412, "")
                  /\ pc' = "done"
           ELSE IF isConditionalGET(rq) /\ isCachable(r1) /\ isFresh(rq, r1)
             THEN /\ res' = NotModified(r1)
                  /\ nextCalls' = nextCalls
                  /\ events' = ev2
                  /\ pc' = "done"
           ELSE IF parsed.code = 0 - 1
             THEN /\ EmitError(st, fe,
                               SetHeader(r1, "Content-Range", ContentRangeUnsatisfied(size)),
                               ev2, 416, "")
                  /\ pc' = "done"
           ELSE IF rq.method = "HEAD"
             THEN /\ res' = [r2 EXCEPT !.ended = TRUE]
                  /\ nextCalls' = nextCalls
                  /\ events' = ev2
                  /\ pc' = "done"
           ELSE /\ res' = [r2 EXCEPT !.body = [NoBody EXCEPT !.kind = "file",
                                                            !.first = first, !.last = last]]
                /\ nextCalls' = nextCalls
                /\ events' = Append(ev2, Ev("stream"))
                /\ pc' = "streaming"

\* onStatError(err): the status for the code of a file-system error
StatErrorStatus(code) ==
  IF code \in {"ENAMETOOLONG", "ENOENT", "ENOTDIR"} THEN 404 ELSE 500

(***************************************************************************)
(* The middleware: function serveStatic (req, res, next)                   *)
(***************************************************************************)

\* the path made '' for every '/', without the look at the original URL
MountPath_NoOriginalCheck(rq) ==
  IF rq.url = <<Slash>> THEN <<>> ELSE rq.url

\* the path of the request handed to send as it is
MountPath_AsIs(rq) == rq.url

\* the path handed to send: '' at a mount point without trailing slash
MountPath(rq) ==
  IF rq.url = <<Slash>> /\ ~EndsWith(rq.originalPathname, Slash) THEN <<>> ELSE rq.url

\* the listeners without the one of the 'headers' event
Listeners_NoHeaders ==
  {"directory", "error"} \cup (IF cfg.fallthrough THEN {"file"} ELSE {})

\* the listeners without the one of the 'file' event
Listeners_NoFile ==
  {"directory", "error"} \cup (IF cfg.setHeaders THEN {"headers"} ELSE {})

\* the listeners attached to the stream of a request
Listeners ==
  {"directory", "error"}
    \cup (IF cfg.setHeaders THEN {"headers"} ELSE {})
    \cup (IF cfg.fallthrough THEN {"file"} ELSE {})

\* forwardError starting as false
InitialForwardError_False == FALSE

\* forwardError kept from the call before when that one had set it
InitialForwardError_Inherited == forwardError \/ ~cfg.fallthrough

\* let forwardError = !fallthrough
InitialForwardError == ~cfg.fallthrough

\* the 405 answer prepared before fallthrough is looked at
MethodNotServed_StatusFirst ==
  /\ IF cfg.fallthrough
       THEN /\ nextCalls' = Append(nextCalls, NoArg)
            /\ res' = [SetHeader(res, "Allow", "GET, HEAD") EXCEPT !.statusCode = 405]
       ELSE /\ nextCalls' = nextCalls
            /\ res' = [SetHeader(SetHeader(res, "Allow", "GET, HEAD"), "Content-Length", "0")
                         EXCEPT !.statusCode = 405, !.ended = TRUE]
  /\ pc' = "done"
  /\ UNCHANGED <<stream, forwardError, hookCalls, events>>

\* the 405 answer without its Allow header
MethodNotServed_NoAllow ==
  /\ IF cfg.fallthrough
       THEN /\ nextCalls' = Append(nextCalls, NoArg)
            /\ res' = res
       ELSE /\ nextCalls' = nextCalls
            /\ res' = [SetHeader(res, "Content-Length", "0")
                         EXCEPT !.statusCode = 405, !.ended = TRUE]
  /\ pc' = "done"
  /\ UNCHANGED <<stream, forwardError, hookCalls, events>>

\* a request that is neither GET nor HEAD
MethodNotServed ==
  /\ IF cfg.fallthrough
       THEN /\ nextCalls' = Append(nextCalls, NoArg)
            /\ res' = res
       ELSE /\ nextCalls' = nextCalls
            /\ res' = [SetHeader(SetHeader(res, "Allow", "GET, HEAD"), "Content-Length", "0")
                         EXCEPT !.statusCode = 405, !.ended = TRUE]
  /\ pc' = "done"
  /\ UNCHANGED <<stream, forwardError, hookCalls, events>>

\* send(req, path, opts), the listeners attached, stream.pipe(res): the
\* stream runs until it reports an error or calls fs.stat
Pipe(rq, opts) ==
  LET path == MountPath(rq)
      out == PipeOutcome(path, opts)
      fe == InitialForwardError
      st == [ created |-> TRUE, path |-> path, opts |-> opts,
              listeners |-> Listeners, target |-> out.target,
              idx |-> IF out.kind = "index" THEN 1 ELSE 0 ]
  IN  /\ stream' = st
      /\ forwardError' = fe
      /\ hookCalls' = hookCalls
      /\ IF out.kind = "error"
           THEN /\ EmitError(st, fe, res, events, out.statusCode, "")
                /\ pc' = "done"
           ELSE /\ res' = res
                /\ nextCalls' = nextCalls
                /\ events' = events
                /\ pc' = IF out.kind = "index" THEN "statIndex" ELSE "stat"

\* the stream created without the index names of the options
Serve_DropIndex(rq) == Pipe(rq, [cfg.opts EXCEPT !.index = <<>>])

\* the stream created without the extensions of the options
Serve_DropExtensions(rq) == Pipe(rq, [cfg.opts EXCEPT !.extensions = <<>>])

\* the stream created without the dotfiles option of the middleware
Serve_DropDotfiles(rq) == Pipe(rq, [cfg.opts EXCEPT !.dotfiles = "undefined"])

\* a GET or HEAD request: the stream is created with the options of the
\* middleware
Serve(rq) == Pipe(rq, cfg.opts)

\* the position of the first '?' of a URL, 0 without one
RECURSIVE QueryAt(_, _)
QueryAt(url, k) ==
  IF k > Len(url) THEN 0 ELSE IF url[k] = "?" THEN k ELSE QueryAt(url, k + 1)

\* the request of a client that follows the Location of a redirect: the
\* same method and header fields, the URL split as the host splits it
FollowRequest(prev, loc) ==
  LET q == QueryAt(loc, 1)
      pathname == IF q = 0 THEN loc ELSE SubSeq(loc, 1, q - 1)
      search == IF q = 0 THEN <<>> ELSE SubSeq(loc, q, Len(loc))
      rest == SubSeq(pathname, Len(prev.mount) + 1, Len(pathname))
  IN  [prev EXCEPT !.url = IF rest = <<>> THEN <<Slash>> ELSE rest,
                   !.originalPathname = pathname,
                   !.search = search]

\* whether the host routes a URL to the middleware mounted at mount
Routed(mount, loc) ==
  /\ Len(loc) >= Len(mount) /\ SubSeq(loc, 1, Len(mount)) = mount
  /\ Len(loc) = Len(mount) \/ loc[Len(mount) + 1] \in {Slash, "?"}

\* the requests a client sends after an answer: it follows a redirect, it
\* asks again for what it got with the ETag of the answer in If-None-Match,
\* and it repeats a GET as a HEAD
FollowUps(h) ==
  (IF HasHeader(h.res, "Location") /\ Routed(h.req.mount, h.res.headers["Location"])
     THEN {FollowRequest(h.req, h.res.headers["Location"])} ELSE {})
  \cup
  (IF h.res.ended /\ h.res.statusCode = 200 /\ HasHeader(h.res, "ETag")
     THEN {[h.req EXCEPT !.ifNoneMatch = h.res.headers["ETag"]]} ELSE {})
  \cup
  (IF h.req.method = "GET" THEN {[h.req EXCEPT !.method = "HEAD"]} ELSE {})

\* the exchange that has just ended
Exchange == [req |-> req, res |-> res, nextCalls |-> nextCalls]

\* the latest time a file was modified
LatestMtime == 2

\* a request every release of fresh answers alike: not one with both an
\* If-None-Match and an If-Modified-Since earlier than a modification
ReleaseIndependent(rq) ==
  \/ rq.ifNoneMatch = "absent"
  \/ rq.ifModifiedSince = NoDate
  \/ rq.ifModifiedSince >= LatestMtime

\* the requests that may come in: any request first, then what the client
\* sends after the answer it got
Incoming ==
  { rq \in (IF history = <<>> THEN RequestsFor(cfg) ELSE FollowUps(history[Len(history)])) :
      ReleaseIndependent(rq) }

\* the call serveStatic(root, options): it returns the middleware or throws
CallServeStatic ==
  /\ pc = "new"
  /\ LET result == serveStatic(cfg.args.root, cfg.args.options)
     IN  cfg' = IF result.thrown = "" THEN result
                ELSE [result EXCEPT !.args = cfg.args]
  /\ pc' = IF cfg'.thrown = "" THEN "idle" ELSE "thrown"
  /\ UNCHANGED <<req, res, stream, forwardError, nextCalls, hookCalls, events, history, parked>>

\* the middleware with HEAD among the methods it does not serve
ServeStatic_GetOnly ==
  /\ pc = "idle"
  /\ \E rq \in Incoming :
       /\ req' = rq
       /\ IF rq.method # "GET"
            THEN MethodNotServed
            ELSE Serve(rq)
  /\ UNCHANGED <<cfg, history, parked>>

\* function serveStatic (req, res, next): the middleware receives a request
ServeStatic ==
  /\ pc = "idle"
  /\ \E rq \in Incoming :
       /\ req' = rq
       /\ IF rq.method # "GET" /\ rq.method # "HEAD"
            THEN MethodNotServed
            ELSE Serve(rq)
  /\ UNCHANGED <<cfg, history, parked>>

(***************************************************************************)
(* send: the callbacks of fs.stat and of the read stream                   *)
(***************************************************************************)

\* sendFile(path): the callback of fs.stat for the literal path; a path
\* that does not exist, has no extension and no trailing separator goes on
\* to the extensions
OnStat ==
  /\ pc = "stat"
  /\ LET result == Stat(stream.target)
         tryExtensions ==
           /\ result = "ENOENT"
           /\ extname(stream.target) = <<>> /\ ~EndsWith(stream.target, Slash)
           /\ Len(stream.opts.extensions) > 0
     IN  IF result = "file"
           THEN /\ SendFile(stream, res, events, req)
                /\ stream' = stream
         ELSE IF tryExtensions
           THEN /\ stream' = [stream EXCEPT !.idx = 1]
                /\ pc' = "statExtension"
                /\ UNCHANGED <<res, forwardError, nextCalls, hookCalls, events>>
         ELSE IF result = "dir"
           THEN /\ EmitDirectory(stream, forwardError, res, events, req)
                /\ pc' = "done"
                /\ UNCHANGED <<stream, forwardError, hookCalls>>
         ELSE /\ EmitError(stream, forwardError, res, events, StatErrorStatus(result), result)
              /\ pc' = "done"
              /\ UNCHANGED <<stream, forwardError, hookCalls>>
  /\ UNCHANGED <<cfg, history, req, parked>>

\* sendFile(path), next(err): the callback of fs.stat for the path with the
\* extension in turn
OnExtensionStat ==
  /\ pc = "statExtension"
  /\ LET p == stream.target \o <<".">> \o stream.opts.extensions[stream.idx]
         result == Stat(p)
         st == [stream EXCEPT !.target = p]
     IN  IF result = "file"
           THEN /\ SendFile(st, res, events, req)
                /\ stream' = st
         ELSE IF stream.idx < Len(stream.opts.extensions)
           THEN /\ stream' = [stream EXCEPT !.idx = @ + 1]
                /\ UNCHANGED <<res, forwardError, nextCalls, hookCalls, events, pc>>
         ELSE /\ IF result = "dir"
                   THEN EmitError(stream, forwardError, res, events, 404, "")
                   ELSE EmitError(stream, forwardError, res, events, StatErrorStatus(result), result)
              /\ pc' = "done"
              /\ UNCHANGED <<stream, forwardError, hookCalls>>
  /\ UNCHANGED <<cfg, history, req, parked>>

\* sendIndex(path): the callback of fs.stat for the index name in turn
OnIndexStat ==
  /\ pc = "statIndex"
  /\ \E p \in {Join(stream.target, stream.opts.index[stream.idx])} :
     \E result \in {Stat(p)} :
     \E st \in {[stream EXCEPT !.target = p]} :
         IF result = "file"
           THEN /\ SendFile(st, res, events, req)
                /\ stream' = st
         ELSE IF stream.idx < Len(stream.opts.index)
           THEN /\ stream' = [stream EXCEPT !.idx = @ + 1]
                /\ UNCHANGED <<res, forwardError, nextCalls, hookCalls, events, pc>>
         ELSE /\ IF result = "dir"
                   THEN EmitError(stream, forwardError, res, events, 404, "")
                   ELSE EmitError(stream, forwardError, res, events, StatErrorStatus(result), result)
              /\ pc' = "done"
              /\ UNCHANGED <<stream, forwardError, hookCalls>>
  /\ UNCHANGED <<cfg, history, req, parked>>

\* the read stream passes a byte of the file to the response
StreamData ==
  /\ pc = "streaming"
  /\ res.sent < BodyLength(res)
  /\ res' = [res EXCEPT !.sent = @ + 1]
  /\ UNCHANGED <<cfg, history, req, stream, forwardError, nextCalls, hookCalls, events, pc, parked>>

\* the read stream ends: the pipe ends the response
StreamEnd ==
  /\ pc = "streaming"
  /\ res.sent = BodyLength(res)
  /\ res' = [res EXCEPT !.ended = TRUE]
  /\ events' = Append(events, Ev("end"))
  /\ pc' = "done"
  /\ UNCHANGED <<cfg, history, req, stream, forwardError, nextCalls, hookCalls, parked>>

\* the read stream fails: onStatError(err) with an error that is not ENOENT
StreamReadError ==
  /\ pc = "streaming"
  /\ res.sent < BodyLength(res)
  /\ EmitError(stream, forwardError, res, events, 500, "EIO")
  /\ pc' = "done"
  /\ UNCHANGED <<cfg, history, req, stream, forwardError, hookCalls, parked>>

\* the client closes the connection: the read stream is destroyed
ClientAbort ==
  /\ pc = "streaming"
  /\ pc' = "aborted"
  /\ UNCHANGED <<cfg, history, req, res, stream, forwardError, nextCalls, hookCalls, events, parked>>

\* the host receives the next request of the client: a new request, a new
\* response and a new next, the same middleware
NewExchange ==
  /\ pc = "done"
  /\ Len(history) + 1 < MaxExchanges
  /\ FollowUps(Exchange) # {}
  /\ history' = Append(history, Exchange)
  /\ req' = NoRequest
  /\ res' = FreshResponse
  /\ stream' = NoStream
  /\ forwardError' = FALSE
  /\ nextCalls' = <<>>
  /\ hookCalls' = <<>>
  /\ events' = <<>>
  /\ pc' = "idle"
  /\ UNCHANGED <<cfg, parked>>

Next ==
  \/ CallServeStatic
  \/ ServeStatic
  \/ NewExchange
  \/ OnStat
  \/ OnExtensionStat
  \/ OnIndexStat
  \/ StreamData
  \/ StreamEnd
  \/ StreamReadError
  \/ ClientAbort

Spec == Init /\ [][Next]_vars

\* every call of fs.stat calls back, and the read stream of a file goes on
\* until it has ended or failed; nothing is assumed of the client
FileSystemCompletes ==
  /\ WF_vars(OnStat)
  /\ WF_vars(OnExtensionStat)
  /\ WF_vars(OnIndexStat)
  /\ WF_vars(StreamData \/ StreamEnd \/ StreamReadError)

(***************************************************************************)
(* Several requests in flight on one middleware: a host with more than one *)
(* connection calls the middleware for a request while the stream of       *)
(* another waits for the file system                                       *)
(***************************************************************************)

\* the options of the middlewares of the host: fallthrough left out or false
HostOptions ==
  { o \in PlainOptions :
      /\ o.fallthrough \in {"undefined", "false"} /\ o.redirect = "undefined"
      /\ o.setHeaders = "undefined" /\ o.dotfiles = "undefined"
      /\ o.index = <<IndexHtml>> }

\* the requests of the host: a file, its first byte, a path that does not
\* exist, two directories, one of them also with the slash
HostRequests ==
  { Get(path) : path \in { <<"/", "t">>, <<"/", "x">>, <<"/", "u">>, <<"/", "p">>,
                           <<"/", "u", "/">> } }
    \cup { [Get(<<"/", "t">>) EXCEPT !.range = Bytes(0, 0)] }

\* what one call of the middleware owns: req, res and next, the stream with
\* its listeners, and the forwardError the call declares
Handling ==
  [ req |-> req, res |-> res, stream |-> stream, forwardError |-> forwardError,
    nextCalls |-> nextCalls, hookCalls |-> hookCalls, events |-> events, pc |-> pc ]

\* no call: a new request, a new response and a new next are to come;
\* forwardError is declared by the call that takes them
NoHandling ==
  [ req |-> NoRequest, res |-> FreshResponse, stream |-> NoStream,
    forwardError |-> forwardError,
    nextCalls |-> <<>>, hookCalls |-> <<>>, events |-> <<>>, pc |-> "idle" ]

\* the event loop with one forwardError for every call
Resume_SharedForwardError(h) ==
  /\ req' = h.req /\ res' = h.res /\ stream' = h.stream
  /\ forwardError' = forwardError
  /\ nextCalls' = h.nextCalls /\ hookCalls' = h.hookCalls
  /\ events' = h.events /\ pc' = h.pc

\* the event loop turns to a call: the listeners of its stream run with
\* the req, res, next and forwardError of their own closure
Resume(h) ==
  /\ req' = h.req /\ res' = h.res /\ stream' = h.stream
  /\ forwardError' = h.forwardError
  /\ nextCalls' = h.nextCalls /\ hookCalls' = h.hookCalls
  /\ events' = h.events /\ pc' = h.pc

\* the stream of the call waits for the file system
InFlight == pc \in {"stat", "statExtension", "statIndex", "streaming"}

\* the requests the host has taken in
Taken ==
  Len(history) + Len(parked) + (IF pc \in {"new", "thrown", "idle"} THEN 0 ELSE 1)

HostInit ==
  /\ \E options \in HostOptions :
       cfg = [NoMiddleware EXCEPT !.args = [root |-> "fixtures", options |-> options]]
  /\ req = NoRequest
  /\ res = FreshResponse
  /\ stream = NoStream
  /\ forwardError = FALSE
  /\ nextCalls = <<>>
  /\ hookCalls = <<>>
  /\ events = <<>>
  /\ pc = "new"
  /\ history = <<>>
  /\ parked = <<>>

\* a request comes in on another connection while the stream of a call
\* waits: the call is left as it is until its next event
HostPark ==
  /\ InFlight /\ parked = <<>> /\ Taken < HostMax
  /\ parked' = <<Handling>>
  /\ Resume(NoHandling)
  /\ UNCHANGED <<cfg, history>>

\* the host calls the middleware with a request
HostServeStatic ==
  /\ pc = "idle" /\ Taken < HostMax
  /\ \E rq \in HostRequests :
       /\ req' = rq
       /\ IF rq.method # "GET" /\ rq.method # "HEAD"
            THEN MethodNotServed
            ELSE Serve(rq)
  /\ UNCHANGED <<cfg, history, parked>>

\* the next event is one of the other call in flight
HostSwitch ==
  /\ parked # <<>> /\ pc \notin {"new", "thrown", "idle"}
  /\ parked[1].pc \notin {"done", "aborted"}
  /\ parked' = <<Handling>>
  /\ Resume(parked[1])
  /\ UNCHANGED <<cfg, history>>

\* the exchange of a call is over; the host goes on with the other call in
\* flight, or waits for a request
HostFinish ==
  /\ pc \in {"done", "aborted"}
  /\ history' = Append(history, Exchange)
  /\ IF parked # <<>> THEN Resume(parked[1]) ELSE Resume(NoHandling)
  /\ parked' = <<>>
  /\ UNCHANGED cfg

HostNext ==
  \/ CallServeStatic
  \/ HostServeStatic
  \/ HostPark
  \/ HostSwitch
  \/ HostFinish
  \/ OnStat
  \/ OnIndexStat
  \/ StreamData
  \/ StreamEnd
  \/ StreamReadError
  \/ ClientAbort

SpecHost == HostInit /\ [][HostNext]_vars

(***************************************************************************)
(* The listeners of the middleware under a stream that emits any error     *)
(***************************************************************************)

\* the status codes of HTTP errors
ErrorStatusCodes == 400..599

\* the errors a stream can hand to its 'error' listeners: with a
\* statusCode or without one
StreamErrors ==
  { [statusCode |-> sc, tag |-> "Error"] : sc \in ErrorStatusCodes \cup {NoStatusCode} }

\* the middlewares under the stream: fallthrough given, left out or false
ListenersOptions ==
  { o \in PlainOptions :
      /\ o.redirect = "undefined" /\ o.setHeaders = "undefined"
      /\ o.dotfiles = "undefined" /\ o.index = <<IndexHtml>> }

ListenersInit ==
  /\ \E options \in ListenersOptions :
       cfg = [NoMiddleware EXCEPT !.args = [root |-> "fixtures", options |-> options]]
  /\ req = NoRequest
  /\ res = FreshResponse
  /\ stream = NoStream
  /\ forwardError = FALSE
  /\ nextCalls = <<>>
  /\ hookCalls = <<>>
  /\ events = <<>>
  /\ pc = "new"
  /\ history = <<>>
  /\ parked = <<>>

\* the middleware called with a GET request: forwardError set, the stream
\* made and the listeners attached; what the stream emits is left open
ListenersServeStatic ==
  /\ pc = "idle"
  /\ req' = Get(<<"/", "t">>)
  /\ stream' = [NoStream EXCEPT !.created = TRUE, !.path = MountPath(req'),
                                !.opts = cfg.opts, !.listeners = Listeners]
  /\ forwardError' = InitialForwardError
  /\ pc' = "piped"
  /\ UNCHANGED <<cfg, res, nextCalls, hookCalls, events, history, parked>>

\* the stream emits 'file': the 'file' listener runs if it is attached
StreamEmitsFile ==
  /\ pc = "piped" /\ \A k \in 1..Len(events) : events[k].name # "file"
  /\ events' = Append(events, Ev("file"))
  /\ forwardError' = IF "file" \in stream.listeners THEN onFile(forwardError)
                                                     ELSE forwardError
  /\ UNCHANGED <<cfg, req, res, stream, nextCalls, hookCalls, pc, history, parked>>

\* the stream emits 'error' with any error: the 'error' listener runs
StreamEmitsError ==
  /\ pc = "piped"
  /\ \E err \in StreamErrors :
       /\ events' = Append(events, ErrorEv(err))
       /\ nextCalls' = Append(nextCalls, ErrorListener(forwardError, err))
  /\ pc' = "done"
  /\ UNCHANGED <<cfg, req, res, stream, forwardError, hookCalls, history, parked>>

ListenersNext ==
  \/ CallServeStatic
  \/ ListenersServeStatic
  \/ StreamEmitsFile
  \/ StreamEmitsError

SpecListeners == ListenersInit /\ [][ListenersNext]_vars

(***************************************************************************)
(* A host that sets the status code or a header field of the response      *)
(* before it calls the middleware                                          *)
(***************************************************************************)

\* the Content-Security-Policy header field
Csp == "Content-Security-Policy"

\* what the handler in front of the middleware does to the response: the
\* status code 500, or a policy of its own
HostPresets ==
  { [FreshResponse EXCEPT !.statusCode = 500],
    SetHeader(FreshResponse, Csp, "default-src 'self'") }

\* the middlewares behind the handler: fallthrough left out or false
PresetOptions == HostOptions

\* the requests behind the handler: the file n with conditions and ranges,
\* a directory without and with the slash
PresetRequests ==
  { rq \in ConditionalRequests : ReleaseIndependent(rq) }
    \cup { Get(<<"/", "u">>), Get(<<"/", "p">>), Get(<<"/", "p", "/">>) }

PresetInit ==
  /\ \E options \in PresetOptions :
       cfg = [NoMiddleware EXCEPT !.args = [root |-> "fixtures", options |-> options]]
  /\ req = NoRequest
  /\ res = FreshResponse
  /\ stream = NoStream
  /\ forwardError = FALSE
  /\ nextCalls = <<>>
  /\ hookCalls = <<>>
  /\ events = <<>>
  /\ pc = "new"
  /\ history = <<>>
  /\ parked = <<>>

\* the handler in front of the middleware runs on the new response
HostPreset ==
  /\ pc = "idle" /\ res = FreshResponse
  /\ \E r \in HostPresets : res' = r
  /\ UNCHANGED <<cfg, req, stream, forwardError, nextCalls, hookCalls, events, pc,
                 history, parked>>

\* the host calls the middleware with the response as the handler left it
PresetServeStatic ==
  /\ pc = "idle"
  /\ \E rq \in PresetRequests :
       /\ req' = rq
       /\ IF rq.method # "GET" /\ rq.method # "HEAD"
            THEN MethodNotServed
            ELSE Serve(rq)
  /\ UNCHANGED <<cfg, history, parked>>

PresetNext ==
  \/ CallServeStatic
  \/ HostPreset
  \/ PresetServeStatic
  \/ OnStat
  \/ OnIndexStat
  \/ StreamData
  \/ StreamEnd
  \/ StreamReadError
  \/ ClientAbort

SpecPreset == PresetInit /\ [][PresetNext]_vars

(***************************************************************************)
(* A caller that assigns to its options object after serveStatic has       *)
(* returned                                                                *)
(***************************************************************************)

\* the properties opts has of its own: the ones the constructor assigns
OwnProperties == {"maxage", "root"}

\* the options the constructor reads into constants of the closure
ClosureConstants == {"fallthrough", "redirect", "setHeaders"}

\* the assignments of the caller: a property of its options object and the
\* new value
Assignments ==
  { <<"index", <<>>>>, <<"extensions", <<<<"g">>, <<"h">>>>>>, <<"dotfiles", "allow">>,
    <<"etag", "false">>, <<"lastModified", "false">>, <<"acceptRanges", "false">>,
    <<"cacheControl", "false">>, <<"immutable", "true">>,
    <<"fallthrough", "false">>, <<"redirect", "false">>, <<"setHeaders", "function">>,
    <<"maxage", "1000">>, <<"root", "42">> }

\* the closure after options[name] = value: a property read on opts finds
\* its own property, or else the one of its prototype, the caller's object;
\* the constants of the closure were read at construction
Assign(c, name, value) ==
  IF name \in OwnProperties \cup ClosureConstants THEN c
  ELSE [c EXCEPT !.opts[name] = value]

\* the middlewares of the caller: fallthrough left out or false
CallerOptions == HostOptions

\* the requests: files, one of them hidden, one without its extension,
\* directories without and with the slash
CallerRequests ==
  { Get(path) : path \in { <<"/", "t">>, <<"/", "n">>, <<"/", ".", "h">>, <<"/", "w">>,
                           <<"/", "u">>, <<"/", "u", "/">> } }

CallerInit ==
  /\ \E options \in CallerOptions :
       cfg = [NoMiddleware EXCEPT !.args = [root |-> "fixtures", options |-> options]]
  /\ req = NoRequest
  /\ res = FreshResponse
  /\ stream = NoStream
  /\ forwardError = FALSE
  /\ nextCalls = <<>>
  /\ hookCalls = <<>>
  /\ events = <<>>
  /\ pc = "new"
  /\ history = <<>>
  /\ parked = <<>>

\* the call serveStatic(root, options); args keeps the arguments as they
\* were at the call
CallerCallServeStatic ==
  /\ pc = "new"
  /\ cfg' = [serveStatic(cfg.args.root, cfg.args.options) EXCEPT !.args = cfg.args]
  /\ pc' = IF cfg'.thrown = "" THEN "idle" ELSE "thrown"
  /\ UNCHANGED <<req, res, stream, forwardError, nextCalls, hookCalls, events, history, parked>>

\* the caller assigns to a property of its options object, once, between
\* two requests
CallerAssigns ==
  /\ pc = "idle"
  /\ cfg.opts = Construct(cfg.args.options).opts
  /\ \E a \in Assignments : cfg' = Assign(cfg, a[1], a[2])
  /\ UNCHANGED <<req, res, stream, forwardError, nextCalls, hookCalls, events, pc,
                 history, parked>>

\* the middleware receives a request of the caller's host
CallerServeStatic ==
  /\ pc = "idle"
  /\ \E rq \in CallerRequests :
       /\ req' = rq
       /\ IF rq.method # "GET" /\ rq.method # "HEAD"
            THEN MethodNotServed
            ELSE Serve(rq)
  /\ UNCHANGED <<cfg, history, parked>>

CallerNext ==
  \/ CallerCallServeStatic
  \/ CallerAssigns
  \/ CallerServeStatic
  \/ OnStat
  \/ OnExtensionStat
  \/ OnIndexStat
  \/ StreamData
  \/ StreamEnd
  \/ StreamReadError
  \/ ClientAbort

SpecCaller == CallerInit /\ [][CallerNext]_vars

(***************************************************************************)
(* The middleware over a file system whose operations all complete         *)
(***************************************************************************)

\* the middlewares: fallthrough and redirect given or not, with and without
\* extensions
LiveOptions ==
  { o \in PlainOptions \cup ExtensionsOptions :
      /\ o.setHeaders = "undefined" /\ o.dotfiles = "undefined"
      /\ o.index = <<IndexHtml>> }

\* the requests: files, one without its extension, one that is not
\* there, one that cannot be read, directories without and with the slash,
\* a path that leaves the root, a method that is not served
LiveRequests ==
  { Get(path) : path \in { <<"/", "t">>, <<"/", "n">>, <<"/", "w">>, <<"/", "x">>,
                           <<"/", "k", "/", "t">>, <<"/", "u">>, <<"/", "u", "/">>, <<"/", "p">>,
                           <<"/", "p", "/">>,
                           <<"/", "u", "/", ".", ".", "/", ".", ".", "/", "t">> } }
    \cup { [Get(<<"/", "n">>) EXCEPT !.method = m] : m \in {"HEAD", "POST"} }
    \cup { [Get(<<"/", "n">>) EXCEPT !.range = Bytes(9, 50)],
           [Get(<<"/", "n">>) EXCEPT !.ifMatch = "other"],
           [Get(<<"/", "n">>) EXCEPT !.ifNoneMatch = FileETag(<<"/", "r", "/", "n">>)] }

LiveInit ==
  /\ \E options \in LiveOptions :
       cfg = [NoMiddleware EXCEPT !.args = [root |-> "fixtures", options |-> options]]
  /\ req = NoRequest
  /\ res = FreshResponse
  /\ stream = NoStream
  /\ forwardError = FALSE
  /\ nextCalls = <<>>
  /\ hookCalls = <<>>
  /\ events = <<>>
  /\ pc = "new"
  /\ history = <<>>
  /\ parked = <<>>

\* the middleware receives a request
LiveServeStatic ==
  /\ pc = "idle"
  /\ \E rq \in LiveRequests :
       /\ req' = rq
       /\ IF rq.method # "GET" /\ rq.method # "HEAD"
            THEN MethodNotServed
            ELSE Serve(rq)
  /\ UNCHANGED <<cfg, history, parked>>

LiveNext ==
  \/ CallServeStatic
  \/ LiveServeStatic
  \/ OnStat
  \/ OnExtensionStat
  \/ OnIndexStat
  \/ StreamData
  \/ StreamEnd
  \/ StreamReadError
  \/ ClientAbort

SpecLive == LiveInit /\ [][LiveNext]_vars /\ FileSystemCompletes

(***************************************************************************)
(* The static-gzip variant of the middleware                               *)
(***************************************************************************)

GzExt == <<".", "g", "z">>

Gzip == <<"g", "z", "i", "p">>

\* String.prototype.split(sep) for a separator of one character
RECURSIVE SplitBy(_, _, _, _)
SplitBy(s, sep, k, cur) ==
  IF k > Len(s) THEN <<cur>>
  ELSE IF s[k] = sep THEN <<cur>> \o SplitBy(s, sep, k + 1, <<>>)
  ELSE SplitBy(s, sep, k + 1, Append(cur, s[k]))

\* parseFloat of a quality value, in tenths; NaN for what is no number
parseFloat(s) ==
  CASE s = <<"0">> -> 0
    [] s = <<"0", ".", "0">> -> 0
    [] s = <<"0", ".", "5">> -> 5
    [] s = <<"1">> -> 10
    [] OTHER -> NaN

\* the loop of isGzipAcceptedRequest over the encodings of the list
RECURSIVE ScanEncodings(_, _, _)
ScanEncodings(encodingsList, i, wildcardEncodingEnabled) ==
  IF i > Len(encodingsList) THEN wildcardEncodingEnabled
  ELSE LET encoding == SplitBy(encodingsList[i], ";", 1, <<>>)
           encodingName == encoding[1]
           isWildCard == encodingName = <<"*">>
           encodingQV == IF Len(encoding) > 1 /\ encoding[2] # <<>>
                           THEN SplitBy(encoding[2], "=", 1, <<>>) ELSE <<>>
           encodingWeight == IF Len(encodingQV) > 1 /\ encodingQV[2] # <<>>
                               THEN parseFloat(encodingQV[2]) ELSE 10
           encodingSupported == encodingWeight # NaN /\ encodingWeight > 0
       IN  IF encodingName = Gzip \/ isWildCard
             THEN IF ~isWildCard THEN encodingSupported
                  ELSE ScanEncodings(encodingsList, i + 1, encodingSupported)
           ELSE ScanEncodings(encodingsList, i + 1, wildcardEncodingEnabled)

\* isGzipAcceptedRequest(req): the Accept-Encoding header field allows gzip
isGzipAcceptedRequest(rq) ==
  IF rq.acceptEncoding = <<>> THEN FALSE
  ELSE IF rq.acceptEncoding = <<"*">> THEN TRUE
  ELSE ScanEncodings(SplitBy(rq.acceptEncoding, ",", 1, <<>>), 1, FALSE)

\* createCache(root): the files below the root whose name ends in .gz
createCache(root) ==
  { f \in Files :
      /\ InsideRoot(f)
      /\ Len(f) > Len(GzExt)
      /\ SubSeq(f, Len(f) - Len(GzExt) + 1, Len(f)) = GzExt }

\* the closure of the middleware of the variant: serveGzip, and the table
\* made when it is on
GzipConstruct(options) ==
  [ serveGzip |-> options.serveGzip = "true",
    gzipCache |-> IF options.serveGzip = "true" THEN createCache(RootDir) ELSE {} ]
    @@ serveStatic("fixtures", options)

\* the options of the variant: serveGzip given or not, fallthrough left
\* out or false
GzipOptions ==
  { [serveGzip |-> g] @@ o : g \in {"undefined", "true", "false"}, o \in HostOptions }

\* the Accept-Encoding header fields: absent, any, gzip, gzip refused,
\* another coding, a list, with a quality value, any refused
AcceptEncodings ==
  { <<>>, <<"*">>, Gzip, Gzip \o <<";", "q", "=", "0">>,
    <<"b", "r">>, <<"b", "r", ",">> \o Gzip,
    Gzip \o <<";", "q", "=", "0", ".", "5">>,
    <<"*", ";", "q", "=", "0">> }

\* the requests of the variant: a file with a compressed sibling, a
\* sibling without its file, files without one, a path that cannot be
\* decoded, a method that is not served
GzipRequests ==
  { [acceptEncoding |-> ae] @@ Get(path) :
      ae \in AcceptEncodings,
      path \in { <<"/", "a", ".", "t">>, <<"/", "b", ".", "t">>, <<"/", "n">>,
                 <<"/", "u", ".", "h">>, <<"/", "%", ".", "t">> } }
    \cup { [acceptEncoding |-> Gzip] @@ [Get(<<"/", "a", ".", "t">>) EXCEPT !.method = m] :
             m \in {"HEAD", "POST"} }

GzipInit ==
  /\ \E options \in GzipOptions :
       cfg = [NoMiddleware EXCEPT !.args = [root |-> "fixtures", options |-> options]]
  /\ req = NoRequest
  /\ res = FreshResponse
  /\ stream = NoStream
  /\ forwardError = FALSE
  /\ nextCalls = <<>>
  /\ hookCalls = <<>>
  /\ events = <<>>
  /\ pc = "new"
  /\ history = <<>>
  /\ parked = <<>>

\* the call serveStatic(root, options) of the variant; args keeps the
\* arguments as they were at the call
GzipCallServeStatic ==
  /\ pc = "new"
  /\ cfg' = [GzipConstruct(cfg.args.options) EXCEPT !.args = cfg.args]
  /\ pc' = "idle"
  /\ UNCHANGED <<req, res, stream, forwardError, nextCalls, hookCalls, events, history, parked>>

\* streamFile for the compressed sibling: the stream of gzipPath, with
\* setGzipHeaders as its 'headers' listener
StreamGzip(rq, gzipPath) ==
  LET out == PipeOutcome(gzipPath, cfg.opts)
      fe == InitialForwardError
      st == [ created |-> TRUE, path |-> gzipPath, opts |-> cfg.opts,
              listeners |-> (Listeners \ {"headers"}) \cup {"gzipHeaders"},
              target |-> out.target,
              idx |-> IF out.kind = "index" THEN 1 ELSE 0 ]
  IN  /\ stream' = st
      /\ forwardError' = fe
      /\ hookCalls' = hookCalls
      /\ IF out.kind = "error"
           THEN /\ EmitError(st, fe, res, events, out.statusCode, "")
                /\ pc' = "done"
           ELSE /\ res' = res
                /\ nextCalls' = nextCalls
                /\ events' = events
                /\ pc' = IF out.kind = "index" THEN "statIndex" ELSE "stat"

\* decodeURIComponent throws URIError: the middleware is left by the
\* exception, with no stream, nothing written and next not called
ThrowsURIError ==
  /\ pc' = "thrown"
  /\ UNCHANGED <<res, stream, forwardError, nextCalls, hookCalls, events>>

\* function serveStatic (req, res, next) of the variant
GzipServeStatic ==
  /\ pc = "idle"
  /\ \E rq \in GzipRequests :
       /\ req' = rq
       /\ IF rq.method # "GET" /\ rq.method # "HEAD" THEN MethodNotServed
          ELSE IF ~cfg.serveGzip THEN Serve(rq)
          ELSE IF ~Mem(MountPath(rq), ".") THEN Serve(rq)
          ELSE IF ~isGzipAcceptedRequest(rq) THEN Serve(rq)
          ELSE IF ~Decode(MountPath(rq)).ok THEN ThrowsURIError
          ELSE IF Join(RootDir, Decode(MountPath(rq)).val \o GzExt) \notin cfg.gzipCache
            THEN Serve(rq)
          ELSE StreamGzip(rq, Decode(MountPath(rq)).val \o GzExt)
  /\ UNCHANGED <<cfg, history, parked>>

GzipNext ==
  \/ GzipCallServeStatic
  \/ GzipServeStatic
  \/ OnStat
  \/ StreamData
  \/ StreamEnd
  \/ StreamReadError
  \/ ClientAbort

SpecGzip == GzipInit /\ [][GzipNext]_vars

(***************************************************************************)
(* Properties                                                              *)
(***************************************************************************)

Emitted(name) == \E k \in 1..Len(events) : events[k].name = name

\* an 'error' event that follows the 'file' event
ErrorAfterFile ==
  \E i, j \in 1..Len(events) :
    i < j /\ events[i].name = "file" /\ events[j].name = "error"

\* an 'error' event of a request whose 'file' event has not fired
ErrorBeforeFile == Emitted("error") /\ ~Emitted("file")

\* the error of the 'error' event
EmittedError ==
  LET e == events[CHOOSE k \in 1..Len(events) : events[k].name = "error"]
  IN  [statusCode |-> e.statusCode, tag |-> e.tag]

GetOrHead == req.method \in {"GET", "HEAD"}

OtherMethod == req.method \in Methods \ {"GET", "HEAD"}

\* C1: a request ends either with a complete response written by the
\* middleware or with a call of next, never with both, and next is called
\* at most once; a request whose handling is over has one of the two.
C1_ExactlyOneOutcome ==
  /\ Len(nextCalls) <= 1
  /\ ~(res.ended /\ Len(nextCalls) > 0)
  /\ pc = "done" => (res.ended \/ Len(nextCalls) = 1)

\* next(err) after a part of the file has already been written
C1_Witness ==
  pc = "done" /\ Len(nextCalls) = 1 /\ nextCalls[1].hasErr /\ res.sent > 0 /\ ~res.ended

\* C2: a request that is neither GET nor HEAD, with fallthrough enabled,
\* makes the middleware call next once without argument and do nothing
\* else: no stream, no listener, no event, the response untouched.
C2_MethodFallthrough ==
  [][(pc = "idle" /\ cfg.fallthrough /\ req'.method \notin {"GET", "HEAD"})
       => /\ nextCalls' = Append(nextCalls, NoArg)
          /\ res' = res
          /\ stream' = stream /\ ~stream'.created /\ stream'.listeners = {}
          /\ events' = events
          /\ hookCalls' = hookCalls
          /\ forwardError' = forwardError
          /\ pc' = "done"]_vars

C2_Witness ==
  req.method = "POST" /\ cfg.fallthrough /\ nextCalls = <<NoArg>> /\ pc = "done"

\* C3: a request that is neither GET nor HEAD, with fallthrough disabled,
\* is answered by the middleware with 405, Allow: GET, HEAD,
\* Content-Length: 0 and no body, and next is not called.
C3_MethodNotAllowed ==
  (OtherMethod /\ ~cfg.fallthrough)
    => /\ res.ended
       /\ res.statusCode = 405
       /\ HasHeader(res, "Allow") /\ res.headers["Allow"] = "GET, HEAD"
       /\ HasHeader(res, "Content-Length") /\ res.headers["Content-Length"] = "0"
       /\ res.body = NoBody /\ res.sent = 0
       /\ nextCalls = <<>>
       /\ ~stream.created

C3_Witness ==
  req.method = "OPTIONS" /\ ~cfg.fallthrough /\ res.statusCode = 405 /\ res.ended

\* C4: an error that follows the file event of a request reaches next as an
\* error, with fallthrough enabled or not, and within one request
\* forwardError never goes back from true to false.
C4_ForwardAfterFile ==
  /\ [](ErrorAfterFile => (Len(nextCalls) = 1 /\ nextCalls[1].hasErr))
  /\ [][(forwardError /\ history' = history) => forwardError']_vars

\* fallthrough enabled, the file event, then an error
C4_Witness ==
  cfg.fallthrough /\ ErrorAfterFile /\ nextCalls = <<ErrArg(EmittedError)>>

\* the request paths of the failures listed for fallthrough
MalformedPath == <<"/", "%">>

TraversalPaths ==
  { <<"/", "u", "/", ".", ".", "/", ".", ".", "/", "t">>,
    <<"/", "%", "2", "e", "%", "2", "e", "/", "t">> }

MissingPath == <<"/", "x">>

ListedFailure ==
  \/ req.url = MalformedPath
  \/ req.url \in TraversalPaths
  \/ req.url = MissingPath
  \/ req.url = LongPath
  \/ req.url = <<"/", ".", "h">> /\ cfg.opts.dotfiles = "undefined"
  \/ req.url = <<"/", "p", "/">>

\* C5: with fallthrough enabled, a failure before a file is identified
\* (malformed escape, traversal, missing file, over-long path, ignored
\* dotfile, directory with trailing slash and no index) ends with next
\* called without argument.
C5_FallthroughSwallows ==
  (cfg.fallthrough /\ GetOrHead /\ pc = "done")
    => /\ ListedFailure => (nextCalls = <<NoArg>> /\ ~res.ended /\ ErrorBeforeFile)
       /\ (ErrorBeforeFile /\ EmittedError.statusCode < 500) => nextCalls = <<NoArg>>

C5_Witness ==
  cfg.fallthrough /\ GetOrHead /\ req.url = LongPath /\ nextCalls = <<NoArg>>

\* C6: with fallthrough disabled no failure is swallowed: a malformed
\* escape gives 400, a traversal 403, a missing file or an over-long path
\* 404, each passed to next as an error with its status and name, and next
\* is never called without an error for a GET or HEAD request.
C6_NoFallthroughForwards ==
  (~cfg.fallthrough /\ GetOrHead)
    => /\ \A k \in 1..Len(nextCalls) : nextCalls[k].hasErr
       /\ pc = "done" =>
            /\ req.url = MalformedPath =>
                 nextCalls = <<[hasErr |-> TRUE, statusCode |-> 400, tag |-> "BadRequestError"]>>
            /\ req.url \in TraversalPaths =>
                 nextCalls = <<[hasErr |-> TRUE, statusCode |-> 403, tag |-> "ForbiddenError"]>>
            /\ req.url = MissingPath =>
                 nextCalls = <<[hasErr |-> TRUE, statusCode |-> 404, tag |-> "ENOENT"]>>
            /\ req.url = LongPath =>
                 nextCalls = <<[hasErr |-> TRUE, statusCode |-> 404, tag |-> "ENAMETOOLONG"]>>

C6_Witness ==
  /\ ~cfg.fallthrough /\ GetOrHead /\ req.url = MalformedPath
  /\ nextCalls = <<[hasErr |-> TRUE, statusCode |-> 400, tag |-> "BadRequestError"]>>

\* C7 as stated: an error is deferred to the host (next without argument)
\* exactly when fallthrough is enabled and no file has been identified.
C7_DeferredIffNoFile ==
  Emitted("error")
    => /\ Len(nextCalls) = 1
       /\ nextCalls[1].hasErr <=> ~(cfg.fallthrough /\ ~Emitted("file"))

\* C7: an error is deferred to the host exactly when fallthrough is
\* enabled, no file has been identified and the status of the error is
\* below 500; every other error reaches next as that error.
C7_DeferredIffClientError ==
  Emitted("error")
    => /\ Len(nextCalls) = 1
       /\ nextCalls[1].hasErr
            <=> ~(cfg.fallthrough /\ ~Emitted("file") /\ EmittedError.statusCode < 500)
       /\ nextCalls[1].hasErr => nextCalls[1] = ErrArg(EmittedError)

\* a failure of fs.stat that is not a missing file, before any file event
C7_Witness ==
  /\ cfg.fallthrough /\ ErrorBeforeFile
  /\ EmittedError = [statusCode |-> 500, tag |-> "EACCES"]
  /\ nextCalls = <<ErrArg(EmittedError)>>

\* the decoded request path leads out of the root directory
EscapesRoot(url) ==
  LET dec == Decode(url)
  IN  dec.ok /\ ~InsideRoot(Resolve(RootDir \o <<Slash>> \o dec.val))

\* C8: no path outside the root directory is looked up or served, and a
\* request whose decoded path leaves the root ends with 403: passed to
\* next as an error without fallthrough, deferred to the host with it.
C8_NoTraversal ==
  /\ (stream.created /\ stream.target # <<>>) => InsideRoot(stream.target)
  /\ (GetOrHead /\ EscapesRoot(req.url))
       => /\ pc = "done"
          /\ ~res.ended /\ res.sent = 0
          /\ events = <<ErrorEv(HttpError(403, ""))>>
          /\ nextCalls = <<IF cfg.fallthrough THEN NoArg ELSE ErrArg(HttpError(403, ""))>>

C8_Witness ==
  /\ GetOrHead /\ ~cfg.fallthrough
  /\ req.url = <<"/", "%", "2", "e", "%", "2", "e", "/", "t">>
  /\ nextCalls = <<ErrArg(HttpError(403, ""))>>

\* a request for a directory, by a path without trailing slash, with
\* index disabled
DirectoryWithoutSlash ==
  /\ Len(cfg.opts.index) = 0
  /\ Emitted("directory")
  /\ ~EndsWith(req.originalPathname, Slash)

\* the request was not found: by the error 404, forwarded or deferred
NotFoundOutcome ==
  /\ ~res.ended
  /\ nextCalls = <<IF cfg.fallthrough THEN NoArg ELSE ErrArg(HttpError(404, ""))>>

RECURSIVE StripLeadingSlashes(_)
StripLeadingSlashes(str) ==
  IF StartsWith(str, Slash) THEN StripLeadingSlashes(Tail(str)) ELSE str

C10_RedirectIs303 ==
  (res.ended /\ HasHeader(res, "Location")) => res.statusCode = 303

\* what pipe(res) decided for the path of the request
Target == PipeOutcome(stream.path, cfg.opts)

\* the request path names a directory of the root
RequestedDirectory ==
  stream.created /\ Target.kind # "error" /\ Stat(Target.target) = "dir"

\* the index names are tried: the request path ends in a slash
IndexTried == hasTrailingSlash(stream.path) /\ Len(cfg.opts.index) > 0

\* what fs.stat gives for the k-th index name in the directory
IndexStat(k) == Stat(Join(Target.target, cfg.opts.index[k]))

\* an index name of the configuration is a regular file of the directory
IndexResolves ==
  IndexTried /\ \E k \in 1..Len(cfg.opts.index) : IndexStat(k) = "file"

\* the look-up of the index ends with a file-system error that is not a
\* missing file: the directory cannot be searched
IndexFailure ==
  /\ IndexTried /\ ~IndexResolves
  /\ IndexStat(Len(cfg.opts.index)) \notin {"dir", "ENOENT", "ENOTDIR", "ENAMETOOLONG"}

\* not found: no response of the middleware, next() with fallthrough,
\* next(err) with status 404 without
NotFound404 ==
  /\ ~res.ended /\ ~HasHeader(res, "Location")
  /\ Len(nextCalls) = 1
  /\ IF cfg.fallthrough THEN nextCalls[1] = NoArg
     ELSE nextCalls[1].hasErr /\ nextCalls[1].statusCode = 404

Following ==
  /\ history # <<>> /\ HasHeader(history[Len(history)].res, "Location")
  /\ req = FollowRequest(history[Len(history)].req,
                         history[Len(history)].res.headers["Location"])

\* the file identified was answered: in full, or as not modified
FileResponse ==
  Emitted("file") /\ res.ended /\ res.statusCode \in {200, 304} /\ nextCalls = <<>>

\* an error of the request passed to next: a precondition that failed, a
\* failure of the file system
ErrorForwarded ==
  /\ ~res.ended /\ Len(nextCalls) = 1 /\ nextCalls[1].hasErr
  /\ nextCalls[1].statusCode \in {412, 500}

\* a GET of '/' at the root: no mount, nothing after the slash
RootRequest == req.mount = <<>> /\ req.originalPathname = <<Slash>>

\* no answer of the client's requests so far, nor the current one, is a
\* redirect that follows a redirect
NoRedirectChain ==
  /\ Following => ~HasHeader(res, "Location")
  /\ \A k \in 1..(Len(history) - 1) :
       ~(/\ HasHeader(history[k].res, "Location")
         /\ history[k + 1].req =
              FollowRequest(history[k].req, history[k].res.headers["Location"])
         /\ HasHeader(history[k + 1].res, "Location"))

LocationHasOneSlash ==
  LET loc == res.headers["Location"]
  IN  StartsWith(loc, Slash) /\ (Len(loc) > 1 => loc[2] # Slash)

\* what collapseLeadingSlashes has to return for a string: a run of two or
\* more leading slashes becomes one slash, any other string is returned as
\* it is; and collapsing the result changes nothing
Collapsed(str) ==
  /\ IF Len(str) >= 2 /\ str[1] = Slash /\ str[2] = Slash
       THEN collapseLeadingSlashes(str) = <<Slash>> \o StripLeadingSlashes(str)
       ELSE collapseLeadingSlashes(str) = str
  /\ collapseLeadingSlashes(collapseLeadingSlashes(str)) = collapseLeadingSlashes(str)

\* C13: the Location of a redirect begins with exactly one slash, whatever
\* the original pathname; collapseLeadingSlashes makes one slash of a run of
\* two or more leading slashes, returns a string with no or one leading
\* slash unchanged, and is idempotent: for the string the redirect gives it
\* and for every string of slashes and letters up to the bound.
C13_NeverProtocolRelative ==
  /\ HasHeader(res, "Location")
       => /\ LocationHasOneSlash
          /\ Collapsed(req.originalPathname \o <<Slash>>)
  /\ \A str \in SlashStrings : Collapsed(str)

\* the redirect of a request with three leading slashes
C13_Witness ==
  /\ req.originalPathname = <<"/", "/", "/", "u">>
  /\ res.ended /\ HasHeader(res, "Location")
  /\ res.headers["Location"] = <<"/", "u", "/">>

\* the header fields send computes for a file before it looks at the
\* conditions of the request
ProtocolHeaders ==
  {"Accept-Ranges", "Cache-Control", "Last-Modified", "ETag", "Content-Type"}

\* the request ended in the file sent with status 200
SuccessfulSend ==
  pc = "done" /\ Emitted("file") /\ res.ended /\ res.statusCode = 200

\* the hook is called at most once, once for a file sent, before any byte
\* of the body, and not at all for not-found, fallthrough, redirect or 405
HookOncePerFile ==
  /\ Len(hookCalls) <= 1
  /\ ~cfg.setHeaders => hookCalls = <<>>
  /\ (cfg.setHeaders /\ SuccessfulSend)
       => /\ Len(hookCalls) = 1
          /\ hookCalls[1].path = stream.target
          /\ HasHeader(res, "x-custom")
  /\ \A k \in 1..Len(hookCalls) : hookCalls[k].sent = 0
  /\ (res.sent > 0 /\ cfg.setHeaders) => Len(hookCalls) = 1
  /\ (~Emitted("file") \/ HasHeader(res, "Location") \/ res.statusCode = 405)
       => (hookCalls = <<>> /\ ~HasHeader(res, "x-custom"))

NothingHandled ==
  /\ req = NoRequest /\ res = FreshResponse /\ ~stream.created
  /\ nextCalls = <<>> /\ events = <<>> /\ history = <<>>

\* what a call of serveStatic with a root that is missing, falsy or not a
\* string does
RootChecked ==
  LET root == cfg.args.root
  IN  /\ ~Truthy(root)
           => (pc' = "thrown" /\ cfg'.thrown = "root path required")
      /\ (Truthy(root) /\ TypeOf(root) # "string")
           => (pc' = "thrown" /\ cfg'.thrown = "root path must be a string")

\* C15 as stated: a setHeaders option that is present and not a function
\* makes serveStatic throw.
C15_ThrowsOnPresentNonFunction ==
  [][pc = "new"
       => /\ RootChecked
          /\ (Truthy(cfg.args.root) /\ TypeOf(cfg.args.root) = "string"
                /\ cfg.args.options.setHeaders # "undefined"
                /\ TypeOf(cfg.args.options.setHeaders) # "function")
               => (pc' = "thrown" /\ cfg'.thrown = "option setHeaders must be function")]_vars

\* C15: serveStatic throws a TypeError and returns no middleware when root
\* is missing or falsy ('root path required'), when root is not a string
\* ('root path must be a string'), and when options.setHeaders has a truthy
\* value that is not a function ('option setHeaders must be function'); the
\* root is checked first; in every other case, a falsy setHeaders included,
\* it returns a middleware. After a throw nothing is ever handled.
C15_ThrowsOnBadArguments ==
  /\ [][pc = "new"
          => /\ RootChecked
             /\ IF Truthy(cfg.args.root) /\ TypeOf(cfg.args.root) = "string"
                  THEN IF Truthy(cfg.args.options.setHeaders)
                            /\ TypeOf(cfg.args.options.setHeaders) # "function"
                         THEN /\ pc' = "thrown"
                              /\ cfg'.thrown = "option setHeaders must be function"
                         ELSE /\ pc' = "idle" /\ cfg'.thrown = ""
                              /\ cfg'.setHeaders = (cfg.args.options.setHeaders = "function")
                  ELSE pc' = "thrown"]_vars
  /\ [](pc = "thrown" => NothingHandled)

\* a root that is not a string and a setHeaders that is not a function:
\* the error is the one of the root
C15_Witness ==
  /\ pc = "thrown" /\ cfg.thrown = "root path must be a string"
  /\ cfg.args.root = "42" /\ cfg.args.options.setHeaders = "3"

\* the decoded, normalized request path has a segment that begins with a
\* dot: the name of a dotfile or of a directory of dotfiles
DottedPath ==
  LET dec == Decode(req.url)
      segs == Split(Normalize(<<".", Slash>> \o dec.val))
  IN  /\ GetOrHead /\ dec.ok
      /\ \E k \in 1..Len(segs) :
           StartsWith(segs[k], ".") /\ segs[k] # Dot /\ segs[k] # DotDot

\* the stream reports the error with this status and nothing else, and the
\* middleware forwards it, or falls through
Refused(status) ==
  /\ events = <<ErrorEv(HttpError(status, ""))>>
  /\ ~res.ended /\ res.sent = 0
  /\ nextCalls = <<IF cfg.fallthrough THEN NoArg ELSE ErrArg(HttpError(status, ""))>>

\* C16: the dotfile policy is applied to every segment of the path: with
\* 'deny' a path with a segment that begins with a dot is refused with 403,
\* with 'ignore' with 404, with 'allow' it is looked up and served like any
\* other file; a policy not given behaves as 'ignore'.
C16_DotfilePolicy ==
  (DottedPath /\ pc = "done")
    => CASE cfg.opts.dotfiles = "deny" -> Refused(403)
         [] cfg.opts.dotfiles \in {"ignore", "undefined"} -> Refused(404)
         [] cfg.opts.dotfiles = "allow" ->
              /\ Emitted("file") /\ stream.target = RootDir \o req.url
              /\ (req.ifMatch = "absent" /\ req.ifNoneMatch = "absent")
                   => (res.statusCode = 200 /\ (res.ended \/ Emitted("error")))

\* a file in a directory of dotfiles, refused under 'deny'
C16_Witness ==
  /\ cfg.opts.dotfiles = "deny" /\ ~cfg.fallthrough /\ pc = "done"
  /\ req.url = <<"/", ".", "d", "/", "t">>
  /\ nextCalls = <<ErrArg(HttpError(403, ""))>>

\* the extensions the caller configured
Extensions == cfg.opts.extensions

\* the literal path with the k-th extension
ExtensionPath(k) == Target.target \o <<".">> \o Extensions[k]

\* the first configured extension that names a regular file, 0 without one
FirstExtension ==
  LET hits == { k \in 1..Len(Extensions) : Stat(ExtensionPath(k)) = "file" }
  IN  IF hits = {} THEN 0 ELSE CHOOSE k \in hits : \A j \in hits : k <= j

\* the stream has looked up the path of the request as a file and is through
\* with the look-up
Looked ==
  /\ stream.created /\ Target.kind = "file"
  /\ pc \in {"streaming", "done", "aborted"}

\* the file at this path is the one the stream identified
Selected(path) ==
  /\ Emitted("file") /\ ~Emitted("directory") /\ stream.target = path

\* the look-up ended in an error of the stream: no file, no directory
SelectedNothing ==
  /\ events # <<>> /\ \A k \in 1..Len(events) : events[k].name = "error"

\* the extensions are tried: the literal path does not exist, has no
\* extension of its own and no trailing separator
ExtensionsTried ==
  /\ Stat(Target.target) = "ENOENT"
  /\ extname(Target.target) = <<>> /\ ~EndsWith(Target.target, Slash)

IndexPath(k) == Join(Target.target, cfg.opts.index[k])

\* the first index name that is a regular file of the directory, 0 without
\* one
FirstIndex ==
  LET hits == { k \in 1..Len(cfg.opts.index) : Stat(IndexPath(k)) = "file" }
  IN  IF hits = {} THEN 0 ELSE CHOOSE k \in hits : \A j \in hits : k <= j

\* the request names a directory, index names are configured and the stream
\* is through with its look-ups
DirectoryLooked ==
  /\ RequestedDirectory /\ Len(cfg.opts.index) > 0
  /\ pc \in {"streaming", "done", "aborted"}

\* the redirect / not-found policy for the directory was applied
DirectoryPolicyApplied ==
  /\ Emitted("directory") /\ ~Emitted("file")
  /\ pc = "done"
  /\ IF cfg.redirect /\ ~hasTrailingSlash(stream.path)
       THEN res.ended /\ HasHeader(res, "Location") /\ nextCalls = <<>>
       ELSE NotFound404

\* the file identified went through the pipeline of an ordinary target:
\* 412 for a failed precondition, 304 for a matching validator, else 200
\* with the headers of the file and, for GET, its bytes
ServedAsFile ==
  /\ OnByDefault(cfg.opts.etag) => res.headers["ETag"] = FileETag(stream.target)
  /\ IF /\ req.ifMatch # "absent"
        /\ ~HasHeader(res, "ETag") \/ req.ifMatch \notin {"*", FileETag(stream.target)}
       THEN Emitted("error") /\ EmittedError.statusCode = 412 /\ ~res.ended
     ELSE IF \/ req.ifNoneMatch = "*"
             \/ HasHeader(res, "ETag") /\ req.ifNoneMatch = FileETag(stream.target)
       THEN res.ended /\ res.statusCode = 304 /\ res.sent = 0
     ELSE /\ res.statusCode = 200 /\ HasHeader(res, "Content-Type")
          /\ res.headers["Content-Length"] = FileSize[stream.target]
          /\ pc = "done" =>
               IF Emitted("error") THEN ~res.ended
               ELSE /\ res.ended
                    /\ res.sent = IF req.method = "HEAD" THEN 0
                                  ELSE FileSize[stream.target]

WireBody(rq, r) == IF rq.method = "HEAD" THEN NoBody ELSE r.body

\* the answer to the GET the client sent before
GetAnswer == history[Len(history)]

\* the request answered is the HEAD for the path and the header fields of
\* the GET answered before it
HeadAfterGet ==
  /\ history # <<>> /\ pc = "done" /\ req.method = "HEAD"
  /\ GetAnswer.req = [req EXCEPT !.method = "GET"]

\* the outcome is the one of the GET: the status, the header fields,
\* whether the middleware answered, and what it passed to next
SameAsGet ==
  /\ res.statusCode = GetAnswer.res.statusCode
  /\ res.headers = GetAnswer.res.headers
  /\ res.ended = GetAnswer.res.ended
  /\ nextCalls = GetAnswer.nextCalls

\* the answer to a HEAD has no body: no byte of a file is read or written
HeadHasNoBody ==
  req.method = "HEAD" =>
    /\ res.sent = 0 /\ ~Emitted("stream") /\ ~Emitted("end")
    /\ res.body.kind # "file" /\ WireBody(req, res) = NoBody

\* the GET failed while the file was read, after the header fields of the
\* file were set
GetReadFailed ==
  /\ GetAnswer.res.body.kind = "file" /\ ~GetAnswer.res.ended
  /\ Len(GetAnswer.nextCalls) = 1 /\ GetAnswer.nextCalls[1].hasErr
  /\ GetAnswer.nextCalls[1].statusCode = 500

Before == history[Len(history)]

\* the request answered repeats the GET of a file answered before with 200
\* and an ETag, and carries that ETag in If-None-Match
Revalidates ==
  /\ history # <<>> /\ pc = "done"
  /\ Before.req.method = "GET" /\ Before.res.body.kind = "file"
  /\ Before.res.ended /\ Before.res.statusCode = 200 /\ HasHeader(Before.res, "ETag")
  /\ req = [Before.req EXCEPT !.ifNoneMatch = Before.res.headers["ETag"]]

\* C20: a GET of a file answered with an ETag, then the same request with
\* that ETag in If-None-Match: the second is answered 304 with no body and
\* nothing is passed to next; no request changes the middleware, so the
\* first leaves nothing behind that matters to the second.
C20_RevalidationNotModified ==
  /\ [](Revalidates =>
         /\ res.ended /\ res.statusCode = 304 /\ nextCalls = <<>>
         /\ res.sent = 0 /\ res.body = NoBody /\ ~Emitted("stream")
         /\ res.headers["ETag"] = Before.res.headers["ETag"])
  /\ [][pc \notin {"new", "thrown"} => cfg' = cfg]_vars

\* GET /u/ answered with the index file, then again with its ETag
C20_Witness ==
  /\ Revalidates /\ req.url = <<"/", "u", "/">>
  /\ Before.res.sent = 1 /\ req.ifNoneMatch = FileETag(<<"/", "r", "/", "u", "/", "i">>)
  /\ res.statusCode = 304 /\ res.ended

\* the directory of the request has a file under a configured index name
DirectoryHasIndex ==
  /\ RequestedDirectory
  /\ \E k \in 1..Len(cfg.opts.index) : Stat(IndexPath(k)) = "file"

\* the path of the Location of the answer, without the query string
LocationPathname ==
  LET loc == res.headers["Location"]
      q == QueryAt(loc, 1)
  IN  IF q = 0 THEN loc ELSE SubSeq(loc, 1, q - 1)

\* C30: with redirect enabled, a request for a directory without trailing
\* slash is answered with the redirect to the URL with the slash even when
\* the directory has a configured index file, and a file is sent for a
\* directory request only when the path of the request ends in a slash.
C30_RedirectBeforeIndex ==
  /\ (pc = "done" /\ cfg.redirect /\ DirectoryHasIndex /\ ~hasTrailingSlash(stream.path))
       => /\ res.ended /\ res.statusCode = RedirectStatus /\ nextCalls = <<>>
          /\ res.headers["Location"] = RedirectLocation(req)
          /\ EndsWith(LocationPathname, Slash)
          /\ ~Emitted("file") /\ res.sent = 0
  /\ (RequestedDirectory /\ Emitted("file")) => hasTrailingSlash(stream.path)

\* GET /u with index.html configured and present in u: the redirect to /u/
C30_Witness ==
  /\ pc = "done" /\ cfg.redirect /\ DirectoryHasIndex
  /\ req.method = "GET" /\ req.url = <<"/", "u">> /\ req.mount = <<>> /\ req.search = <<>>
  /\ cfg.opts.index = <<IndexHtml>>
  /\ res.headers["Location"] = <<"/", "u", "/">> /\ res.statusCode = 301

\* the stream has set the header fields of a file on the response
FileHeadersSet == pc \in {"streaming", "done", "aborted"} /\ Emitted("headers")

\* the maxAge the middleware was made with: maxAge, else maxage, else 0
ConfiguredMaxAge ==
  IF Truthy(cfg.opts.maxAge) THEN cfg.opts.maxAge ELSE cfg.opts.maxage

\* the whole seconds of the configured maxAge, at most those of a year
ConfiguredSeconds ==
  CASE ConfiguredMaxAge = "0"        -> 0
    [] ConfiguredMaxAge = "1500"     -> 1
    [] ConfiguredMaxAge = "2000"     -> 2
    [] ConfiguredMaxAge = "1h"       -> 3600
    [] ConfiguredMaxAge = "Infinity" -> 31536000

\* the Cache-Control of the response is the given value, or is absent when
\* cacheControl is false
CacheControlIs(value) ==
  IF cfg.opts.cacheControl = "false"
    THEN ~HasHeader(res, "Cache-Control")
    ELSE HasHeader(res, "Cache-Control") /\ res.headers["Cache-Control"] = value

Forwarded(status) ==
  \E k \in 1..Len(nextCalls) : nextCalls[k].hasErr /\ nextCalls[k].statusCode = status

\* the response carries the file from its first byte to its last: 200,
\* Content-Length the size, no Content-Range
FullBody ==
  /\ res.statusCode = 200 /\ res.body.kind = "file"
  /\ res.body.first = 0 /\ res.body.last = FileSize[stream.target] - 1
  /\ res.headers["Content-Length"] = FileSize[stream.target]
  /\ ~HasHeader(res, "Content-Range")

\* the response carries bytes of a file
CarriesFile == FileHeadersSet /\ res.body.kind = "file"

\* C25: with acceptRanges disabled a Range header is never honoured: no
\* answer is 206 or 416, a response that carries a file is 200 with the
\* full body, and no response has Accept-Ranges or Content-Range; with
\* acceptRanges enabled, Accept-Ranges: bytes is on every response the
\* header fields of a file were set on, the 200, 206 and 416 among them.
C25_AcceptRanges ==
  /\ (FileHeadersSet /\ cfg.opts.acceptRanges = "false") =>
       /\ res.statusCode # 206 /\ ~Forwarded(416)
       /\ ~HasHeader(res, "Accept-Ranges") /\ ~HasHeader(res, "Content-Range")
       /\ CarriesFile => FullBody
  /\ (FileHeadersSet /\ cfg.opts.acceptRanges # "false") =>
       /\ HasHeader(res, "Accept-Ranges") /\ res.headers["Accept-Ranges"] = "bytes"

\* acceptRanges false, GET /n with Range: bytes=1-2: the four bytes, 200
C25_Witness ==
  /\ pc = "done" /\ cfg.opts.acceptRanges = "false" /\ req.range = Bytes(1, 2)
  /\ req.method = "GET" /\ FullBody /\ res.ended /\ res.sent = 4
  /\ ~HasHeader(res, "Accept-Ranges")

\* the size of the file the stream answers with
TargetSize == FileSize[stream.target]

\* the request asks for one byte range of the file and for nothing else:
\* a first position below the size with no last position before it, or a
\* suffix of one byte up to the whole file; no condition, no If-Range
AsksOneRange ==
  /\ FileHeadersSet /\ cfg.opts.acceptRanges # "false"
  /\ req.range.given /\ req.range.unit = "bytes" /\ Len(req.range.specs) = 1
  /\ ~isConditionalGET(req) /\ req.ifRange = NoIfRange
  /\ LET spec == req.range.specs[1]
     IN  IF spec.first = NaN
           THEN spec.last >= 1 /\ spec.last <= TargetSize
           ELSE spec.first < TargetSize /\ (spec.last = NaN \/ spec.first <= spec.last)

\* the first byte asked for: the given one, or the one of the suffix
AskedFirst ==
  LET spec == req.range.specs[1]
  IN  IF spec.first = NaN THEN TargetSize - spec.last ELSE spec.first

\* the last byte asked for, at most the last of the file
AskedLast ==
  LET spec == req.range.specs[1]
  IN  IF spec.first = NaN \/ spec.last = NaN \/ spec.last > TargetSize - 1
        THEN TargetSize - 1 ELSE spec.last

\* C22: for a file of size n and a request with a single byte range whose
\* start is below n, the response is 206 with Content-Range
\* 'bytes start-e/n', e = min(end, n-1), Content-Length e - start + 1, and
\* the body is the bytes start..e; 'bytes=-k' is the last k bytes and
\* 'bytes=s-' is s..n-1. Nothing is passed to next unless reading the file
\* fails.
C22_PartialContent ==
  AsksOneRange =>
    /\ res.statusCode = 206 /\ ~Forwarded(416)
    /\ nextCalls # <<>> => (Emitted("stream") /\ Forwarded(500))
    /\ res.headers["Content-Range"] =
         "bytes " \o ToString(AskedFirst) \o "-" \o ToString(AskedLast)
           \o "/" \o ToString(TargetSize)
    /\ res.headers["Content-Length"] = AskedLast - AskedFirst + 1
    /\ req.method = "GET" =>
         /\ res.body.kind = "file"
         /\ res.body.first = AskedFirst /\ res.body.last = AskedLast
         /\ res.sent <= AskedLast - AskedFirst + 1
         /\ res.ended => res.sent = AskedLast - AskedFirst + 1

\* Range: bytes=1-9 of the four bytes of n: 206, bytes 1-3/4, three bytes
C22_Witness ==
  /\ AsksOneRange /\ req.range = Bytes(1, 9) /\ req.method = "GET"
  /\ pc = "done" /\ res.ended /\ res.statusCode = 206
  /\ res.headers["Content-Range"] = "bytes 1-3/4"
  /\ res.headers["Content-Length"] = 3 /\ res.sent = 3

\* the request asks for one byte range that starts at or after the end of
\* the file, and for nothing else
AsksRangeBeyondEnd ==
  /\ FileHeadersSet /\ cfg.opts.acceptRanges # "false"
  /\ req.range.given /\ req.range.unit = "bytes" /\ Len(req.range.specs) = 1
  /\ ~isConditionalGET(req) /\ req.ifRange = NoIfRange
  /\ req.range.specs[1].first # NaN /\ req.range.specs[1].first >= TargetSize

\* C23: for a file of size n and a single requested range whose start is
\* at or after n, the outcome is the error 416, passed to next, with
\* Content-Range 'bytes */n' on the response and no body: no byte of the
\* file is sent.
C23_RangeNotSatisfiable ==
  AsksRangeBeyondEnd =>
    /\ pc = "done"
    /\ nextCalls = << [hasErr |-> TRUE, statusCode |-> 416,
                       tag |-> "RangeNotSatisfiableError"] >>
    /\ res.headers["Content-Range"] = "bytes */" \o ToString(TargetSize)
    /\ res.statusCode # 206 /\ ~HasHeader(res, "Content-Length")
    /\ res.body = NoBody /\ res.sent = 0 /\ ~Emitted("stream")

\* Range: bytes=4-9 of the four bytes of n
C23_Witness ==
  /\ AsksRangeBeyondEnd /\ req.range = Bytes(4, 9) /\ req.method = "GET"
  /\ Forwarded(416) /\ res.headers["Content-Range"] = "bytes */4" /\ res.sent = 0

\* the Range header is not a valid 'bytes=' range: no '=', another unit, or
\* a range whose last position is before its first
NotBytesRange ==
  /\ req.range.given
  /\ \/ req.range.unit # "bytes"
     \/ req.range.specs = <<>>
     \/ \E k \in 1..Len(req.range.specs) :
          /\ req.range.specs[k].first # NaN /\ req.range.specs[k].last # NaN
          /\ req.range.specs[k].last < req.range.specs[k].first

\* the If-Range of the request is not the validator of the file, in the
\* form the header uses: its ETag, or the time of its Last-Modified
IfRangeMismatch ==
  /\ req.range.given
  /\ \/ /\ req.ifRange.kind = "etag"
        /\ ~(HasHeader(res, "ETag") /\ res.headers["ETag"] = req.ifRange.etag)
     \/ /\ req.ifRange.kind = "date"
        /\ ~(HasHeader(res, "Last-Modified")
               /\ res.headers["Last-Modified"] = req.ifRange.date)

ValidatorsSet ==
  /\ FileHeadersSet
  /\ HasHeader(res, "ETag") /\ HasHeader(res, "Last-Modified")

\* how the conditions of the request were answered: the error 412, 304, or
\* neither, and then the range of the request is looked at
ConditionalOutcome ==
  IF Forwarded(412) THEN "412"
  ELSE IF res.statusCode = 304 THEN "304"
  ELSE "range"

\* If-Match is given and is neither '*' nor the ETag of the file
IfMatchFails ==
  req.ifMatch \notin {"absent", "*", res.headers["ETag"]}

\* If-None-Match is given and is '*' or the ETag of the file
IfNoneMatchMatches ==
  req.ifNoneMatch \in {"*", res.headers["ETag"]}

\* If-Modified-Since is given and the file was not modified after it
NotModifiedSince ==
  req.ifModifiedSince # NoDate /\ res.headers["Last-Modified"] <= req.ifModifiedSince

\* If-Unmodified-Since is given and the file was modified after it
ModifiedAfterUnmodifiedSince ==
  req.ifUnmodifiedSince # NoDate /\ res.headers["Last-Modified"] > req.ifUnmodifiedSince

Constructed == pc \notin {"new", "thrown"}

\* C27: neither the construction of the middleware nor any sequence of
\* requests writes to the caller's options object, and no request changes
\* the configuration of the middleware (fallthrough, redirect, setHeaders,
\* maxage, root, the directory listener): after any number of requests it
\* is the configuration right after construction.
C27_ConfigurationNeverWritten ==
  /\ [](cfg.assigned = {})
  /\ [][Constructed =>
          /\ cfg'.assigned = cfg.assigned
          /\ cfg'.fallthrough = cfg.fallthrough /\ cfg'.redirect = cfg.redirect
          /\ cfg'.setHeaders = cfg.setHeaders /\ cfg'.onDirectory = cfg.onDirectory
          /\ cfg'.opts = cfg.opts]_vars

\* a middleware made with maxage 2000, which the constructor assigns on
\* opts, has answered one request and then a second
C27_Witness ==
  /\ Constructed /\ cfg.opts.maxage = "2000" /\ cfg.opts.root = OptsRoot
  /\ cfg.assigned = {}
  /\ history # <<>> /\ pc = "done" /\ res.ended

\* the calls of the middleware in flight or just over: the one whose event
\* runs and the one that waits
Calls ==
  (IF pc \in {"new", "thrown", "idle"} THEN {} ELSE {Handling})
    \cup { parked[k] : k \in 1..Len(parked) }

\* the stream of the call has emitted the event
EmittedIn(h, name) == \E k \in 1..Len(h.events) : h.events[k].name = name

\* the call forwards errors because of its own request only: fallthrough is
\* off, or its own stream has found a file
OwnForwardError(h) ==
  h.forwardError = (~cfg.fallthrough \/ EmittedIn(h, "file"))

\* an error of the stream of the call went to next exactly when the call
\* forwarded errors; otherwise next was called without one
OwnErrorOutcome(h) ==
  (h.pc = "done" /\ EmittedIn(h, "error")) =>
    /\ Len(h.nextCalls) = 1
    /\ h.nextCalls[1].hasErr = (~cfg.fallthrough \/ EmittedIn(h, "file"))

\* the Location of a redirect of the call is made of the URL of its own
\* request
OwnLocation(h) ==
  HasHeader(h.res, "Location") => h.res.headers["Location"] = RedirectLocation(h.req)

\* C28: when several requests are in flight on one middleware and their
\* events interleave in any order, each request has the outcome it has
\* alone: the file event of one request never turns on error forwarding for
\* another, the directory listener shared by all builds each Location from
\* the URL of the request it was called for, and a call that waits is left
\* as it is until the event loop turns to it again.
C28_CallsDoNotInterfere ==
  /\ [](\A h \in Calls : OwnForwardError(h) /\ OwnErrorOutcome(h) /\ OwnLocation(h))
  /\ [][parked' # parked =>
          /\ parked' \in {<<>>, <<Handling>>}
          /\ parked # <<>> => Handling' = parked[1]]_vars

\* GET /t has found its file and waits to be read while GET /x, taken in
\* after it, is not found: next is called without an error
C28_Witness ==
  /\ cfg.fallthrough /\ parked # <<>>
  /\ parked[1].req.url = <<"/", "t">> /\ parked[1].pc = "streaming"
  /\ parked[1].forwardError
  /\ req.url = <<"/", "x">> /\ pc = "done" /\ ~forwardError
  /\ nextCalls = <<NoArg>>

\* the exchanges that are over: those the host has recorded and those of
\* the calls that have just ended
Finished ==
  { history[k] : k \in 1..Len(history) }
    \cup { [req |-> h.req, res |-> h.res, nextCalls |-> h.nextCalls] :
             h \in { c \in Calls : c.pc = "done" } }

\* the exchange ran to its end: the client did not leave, and reading the
\* file did not fail
RanToEnd(e) ==
  /\ e.res.ended \/ e.nextCalls # <<>>
  /\ \A k \in 1..Len(e.nextCalls) : e.nextCalls[k].tag # "EIO"

\* the same status, header fields, byte range, bytes sent and calls of next
SameOutcome(a, b) ==
  /\ a.res.statusCode = b.res.statusCode
  /\ a.res.headers = b.res.headers
  /\ a.res.body = b.res.body /\ a.res.sent = b.res.sent
  /\ a.res.ended = b.res.ended
  /\ a.nextCalls = b.nextCalls

\* C29: the outcome of a request is a function of its method, path,
\* header fields and the stat of its target only: two requests with equal
\* method, path and header fields against an unchanged file system (every
\* read succeeds, the client stays) receive the same status, header fields
\* and byte range, whatever requests were handled before or between them.
C29_OutcomeIsAFunctionOfTheRequest ==
  \A a \in Finished, b \in Finished :
    (a.req = b.req /\ RanToEnd(a) /\ RanToEnd(b)) => SameOutcome(a, b)

\* GET /x falls through, GET /t is answered with its file, and GET /x falls
\* through again
C29_Witness ==
  /\ cfg.fallthrough /\ Len(history) = 2 /\ pc = "done"
  /\ history[1].req = Get(<<"/", "x">>) /\ history[1].nextCalls = <<NoArg>>
  /\ history[2].req = Get(<<"/", "t">>) /\ history[2].res.ended
  /\ history[2].res.sent = 2
  /\ req = Get(<<"/", "x">>) /\ nextCalls = <<NoArg>> /\ ~res.ended

\* the stream was made for a request whose pathname is '/'
AtMountPoint == stream.created /\ req.url = <<Slash>>

\* C31: when the pathname of the request is '/' and the pathname of the
\* original URL does not end in '/', the path handed to send is the empty
\* string: the request is one for a directory without trailing slash and,
\* with redirect enabled, is answered with the redirect to the original
\* pathname plus '/' (not-found with redirect disabled); when the original
\* pathname ends in '/', the path stays '/' and there is no redirect.
C31_RedirectAtMountPoint ==
  AtMountPoint =>
    IF ~EndsWith(req.originalPathname, Slash)
      THEN /\ stream.path = <<>>
           /\ ~hasTrailingSlash(stream.path) /\ RequestedDirectory
           /\ pc = "done" =>
                /\ ~Emitted("file") /\ res.sent = 0
                /\ IF cfg.redirect
                     THEN /\ res.ended /\ res.statusCode = RedirectStatus
                          /\ nextCalls = <<>>
                          /\ res.headers["Location"] =
                               req.originalPathname \o <<Slash>> \o req.search
                     ELSE NotFound404
      ELSE /\ stream.path = <<Slash>>
           /\ ~HasHeader(res, "Location")

\* GET /m under the mount /m: the path is '', the answer the redirect to /m/
C31_Witness ==
  /\ AtMountPoint /\ pc = "done" /\ req.method = "GET"
  /\ req.originalPathname = <<"/", "m">> /\ req.search = <<>>
  /\ stream.path = <<>>
  /\ res.ended /\ res.headers["Location"] = <<"/", "m", "/">>

\* the k-th event of the stream is the error of a failed precondition or
\* of a range that cannot be satisfied
ConditionError(k) ==
  events[k].name = "error" /\ events[k].statusCode \in {412, 416}

\* C32: with fallthrough enabled, a failed precondition (412) and an
\* unsatisfiable range (416) reach the host as errors with that status and
\* are never turned into a next without argument: the file event of a
\* request precedes the evaluation of its conditions and of its range.
C32_ConditionErrorsForwarded ==
  \A k \in 1..Len(events) :
    ConditionError(k) =>
      /\ \E j \in 1..(k - 1) : events[j].name = "file"
      /\ forwardError
      /\ Len(nextCalls) = 1 /\ nextCalls[1].hasErr
      /\ nextCalls[1].statusCode = events[k].statusCode
      /\ ~res.ended /\ res.sent = 0

\* fallthrough enabled, GET /n with an If-Match no file has: the error 412
C32_Witness ==
  /\ cfg.fallthrough /\ pc = "done" /\ req.method = "GET"
  /\ req.url = <<"/", "n">> /\ req.ifMatch = "other"
  /\ Emitted("file") /\ Forwarded(412)

\* the request path has a '..' segment and its normalized form stays
\* inside the root directory
DotDotInsideRoot ==
  /\ stream.created
  /\ Decode(req.url).ok /\ UpPath(Decode(req.url).val)
  /\ ~EscapesRoot(req.url)

\* the request path normalized as pipe(res) normalizes it: '.' is the
\* mount point itself, a trailing slash is kept
NormalizedPath ==
  LET n == Normalize(<<".", Slash>> \o Decode(req.url).val)
  IN  IF n = <<".">> THEN <<>>
      ELSE IF n = <<".", Slash>> THEN <<Slash>>
      ELSE <<Slash>> \o n

\* C36: a request path with '..' segments whose normalized form stays
\* inside the root directory is not rejected: the file system is asked
\* for the path the normalized path would be looked up at, it is a file
\* or an index lookup as for the normalized path, and a file found there
\* is sent in full.
C36_DotDotInsideRoot ==
  DotDotInsideRoot
    => /\ ~UpPath(NormalizedPath)
       /\ Target = PipeOutcome(NormalizedPath, cfg.opts)
       /\ hasTrailingSlash(stream.path) = hasTrailingSlash(NormalizedPath)
       /\ ~Forwarded(403) /\ ~Forwarded(400)
       /\ \A k \in 1..Len(events) :
            events[k].name = "error" => events[k].statusCode \notin {400, 403}
       /\ Target.kind # "error" => stream.target = Target.target
       /\ (/\ pc = "done" /\ req.method = "GET" /\ req.range = NoRange
           /\ NormalizedPath = <<Slash, "t">> /\ res.ended)
            => /\ res.statusCode \in {200, 304, 412}
               /\ res.statusCode = 200 => res.sent = 2

C36_Witness ==
  /\ pc = "done" /\ req.method = "GET"
  /\ req.url = <<"/", "u", "/", ".", ".", "/", "t">>
  /\ stream.target = <<"/", "r", "/", "t">>
  /\ res.ended /\ res.statusCode = 200 /\ res.sent = 2

\* the error the stream has emitted, once it has emitted one
LastError == events[Len(events)]

\* C37: an error whose statusCode is not below 500, or that has no
\* statusCode, is passed to next as that error whatever the fallthrough
\* option and whether or not the stream has emitted file; next is called
\* without an argument only for an error with a statusCode below 500, with
\* fallthrough enabled and before file.
C37_ServerErrorsAlwaysForwarded ==
  (pc = "done" /\ Emitted("error"))
    => /\ Len(nextCalls) = 1
       /\ ~Less(LastError.statusCode, 500)
            => /\ nextCalls[1].hasErr
               /\ nextCalls[1].statusCode = LastError.statusCode
       /\ ~nextCalls[1].hasErr
            => /\ LastError.statusCode # NoStatusCode
               /\ LastError.statusCode < 500
               /\ cfg.fallthrough /\ ~Emitted("file")

\* an error without statusCode is passed on although fallthrough is
\* enabled and no file has been identified
C37_Witness ==
  /\ pc = "done" /\ cfg.fallthrough /\ ~Emitted("file")
  /\ LastError.name = "error" /\ LastError.statusCode = NoStatusCode
  /\ nextCalls = <<ErrArg([statusCode |-> NoStatusCode, tag |-> "Error"])>>

\* the character references escape-html writes, without the leading '&'
EntityTails ==
  { <<"q", "u", "o", "t", ";">>, <<"a", "m", "p", ";">>, <<"#", "3", "9", ";">>,
    <<"l", "t", ";">>, <<"g", "t", ";">> }

\* a text has none of < > " ' and every & of it starts a character
\* reference
NoMarkup(s) ==
  \A k \in 1..Len(s) :
    /\ s[k] \notin {"<", ">", "\"", "'"}
    /\ s[k] = "&" => \E t \in EntityTails :
                       k + Len(t) <= Len(s) /\ SubSeq(s, k + 1, k + Len(t)) = t

\* a character reference put back to the character it stands for
RECURSIVE unescapeHtml(_)
unescapeHtml(s) ==
  IF Len(s) = 0 THEN <<>>
  ELSE IF Head(s) # "&" THEN <<Head(s)>> \o unescapeHtml(Tail(s))
  ELSE LET t == CHOOSE e \in EntityTails :
                  Len(e) < Len(s) /\ SubSeq(s, 2, Len(e) + 1) = e
           c == CASE t = <<"q", "u", "o", "t", ";">> -> "\""
                  [] t = <<"a", "m", "p", ";">> -> "&"
                  [] t = <<"#", "3", "9", ";">> -> "'"
                  [] t = <<"l", "t", ";">> -> "<"
                  [] t = <<"g", "t", ";">> -> ">"
       IN  <<c>> \o unescapeHtml(SubSeq(s, Len(t) + 2, Len(s)))

\* C35: the HTML body of a redirect has the location in escaped form only:
\* the href attribute and the link text have none of < > " ' and no & but
\* the one of a character reference, and both read back as the Location.
C35_RedirectBodyEscaped ==
  res.body.kind = "redirect"
    => /\ NoMarkup(res.body.href) /\ NoMarkup(res.body.text)
       /\ unescapeHtml(res.body.href) = res.headers["Location"]
       /\ unescapeHtml(res.body.text) = res.headers["Location"]

\* the directory asked for with ?&'<"> : & and ' are left by encodeUrl
\* and written as character references
C35_Witness ==
  /\ pc = "done" /\ req.search = MarkupSearch /\ req.mount = <<>>
  /\ res.body.kind = "redirect"
  /\ res.headers["Location"]
       = <<"/", "u", "/", "?", "&", "'", "%", "3", "C", "%", "2", "2", "%", "3", "E">>
  /\ res.body.text
       = <<"/", "u", "/", "?", "&", "a", "m", "p", ";", "&", "#", "3", "9", ";",
           "%", "3", "C", "%", "2", "2", "%", "3", "E">>

\* the step in which the stream answers a conditional GET for a file on a
\* response whose status code the host has set to neither 2xx nor 304
AnswersOnPresetStatus ==
  /\ pc = "stat" /\ pc' \in {"done", "streaming"}
  /\ Stat(stream.target) = "file"
  /\ req.method = "GET" /\ isConditionalGET(req)
  /\ ~((res.statusCode >= 200 /\ res.statusCode < 300) \/ res.statusCode = 304)

\* the whole file goes out under the status code the host has set
SentAsIs ==
  /\ pc' = "streaming" /\ nextCalls' = nextCalls
  /\ res'.statusCode = res.statusCode
  /\ res'.body.kind = "file"
  /\ res'.body.first = 0 /\ res'.body.last = FileSize[stream.target] - 1
  /\ ~HasHeader(res', "Content-Range")

C34_PresetPolicyKept ==
  [][(pc = "stat" /\ res'.body.kind = "redirect")
       => /\ HasHeader(res', Csp)
          /\ res'.headers[Csp] = IF HasHeader(res, Csp) THEN res.headers[Csp]
                                                        ELSE "default-src 'none'"]_vars

\* the closure serveStatic made of the arguments it was called with
AsConstructed == Construct(cfg.args.options)

\* C39: whatever the caller assigns to its options object after
\* serveStatic has returned, every request is served with the value every
\* option had at construction.
C39_OptionsAsConstructed ==
  stream.created
    => /\ stream.opts = AsConstructed.opts
       /\ cfg.fallthrough = AsConstructed.fallthrough
       /\ cfg.redirect = AsConstructed.redirect
       /\ cfg.setHeaders = AsConstructed.setHeaders
       /\ cfg.onDirectory = AsConstructed.onDirectory

\* the middleware has been called with the request and has not finished
Pending == pc \in {"stat", "statExtension", "statIndex", "streaming"}

\* the response is ended or next has been called
TerminalOutcome == res.ended \/ nextCalls # <<>>

\* C38: when every file-system operation completes or fails, a request
\* the middleware has taken ends with the response ended or next called,
\* unless the client aborts the connection.
C38_EveryRequestEnds ==
  /\ Pending ~> (TerminalOutcome \/ pc = "aborted")
  /\ [](pc = "done" => TerminalOutcome)

\* a request that waited for the file system and was answered
C38_Witness ==
  /\ pc = "done" /\ res.ended /\ nextCalls = <<>>
  /\ Emitted("stream") /\ Emitted("end") /\ res.sent = BodyLength(res)

\* the stream of the request is the one of the compressed sibling
SendsGzip == stream.created /\ "gzipHeaders" \in stream.listeners

\* the Accept-Encoding header field of the request allows gzip
AcceptsGzip ==
  req.acceptEncoding \in
    { <<"*">>, Gzip, <<"b", "r", ",">> \o Gzip, Gzip \o <<";", "q", "=", "0", ".", "5">> }

\* the request is streamed as the middleware without serveGzip streams it
StreamsLiteral ==
  /\ stream.created
  /\ stream.path = MountPath(req)
  /\ stream.listeners = Listeners
  /\ ~HasHeader(res, "Content-Encoding") /\ ~HasHeader(res, "Vary")

\* C40: the table of .gz files is the one made at construction; the
\* compressed sibling is streamed, with Content-Encoding: gzip and Vary:
\* Accept-Encoding, only when serveGzip is on, the request accepts gzip
\* and the table has the path with .gz; every other GET or HEAD request
\* is streamed by its literal path as without the feature.
C40_GzipOnlyFromTable ==
  pc \notin {"new", "idle"}
    => /\ cfg.gzipCache = IF cfg.serveGzip THEN createCache(RootDir) ELSE {}
       /\ SendsGzip
            => /\ cfg.serveGzip /\ AcceptsGzip
               /\ req.method \in {"GET", "HEAD"}
               /\ stream.path = req.url \o GzExt
               /\ Join(RootDir, stream.path) \in cfg.gzipCache
               /\ Emitted("headers")
                    => /\ HasHeader(res, "Content-Encoding")
                       /\ res.headers["Content-Encoding"] = "gzip"
                       /\ res.headers["Vary"] = "Accept-Encoding"
       /\ (~SendsGzip /\ req.method \in {"GET", "HEAD"}) => StreamsLiteral

====
